---- MODULE Spec2Model ----
(***************************************************************************)
(* Bounded priority queue with aging, its blocking enqueue/dequeue         *)
(* protocol (two counting semaphores and one mutex), the shutdown protocol *)
(* and the producer / consumer / supervisor threads that use it.           *)
(***************************************************************************)
EXTENDS Integers, Sequences, FiniteSets, TLC

(* ---------------- program constants (config.h) ---------------- *)
MAX_PRODUCERS == 10
MAX_CONSUMERS == 5
MAX_QUEUE_SIZE == 20
MIN_QUEUE_SIZE == 1
PRIORITY_MIN == 0
PRIORITY_MAX == 9
DATA_RANGE_MIN == 0
DATA_RANGE_MAX == 9
INT_MAX == 2147483647
\* analytics.h: #define MAX_QUEUE_SAMPLES 600
MAX_QUEUE_SAMPLES == 600
TestThreads == 2
TestOps == 2

(* ---------------- bounds of the model ---------------- *)
NumProducers == 2
NumConsumers == 1
Capacity == 2
MaxOps == 1
MaxClock == 1
MaxSignals == 1
StopOps == 2
SampleRounds == 1
SampleMargin == 2
ReportSamples == 10
TestCapacity == 1
AgingIntervalMs == 1
SeqCapacity == 3
SeqMaxEnq == 4
StarveLow == 7
InitMargin == 3
Seed == 9

Producers == 1..NumProducers
Consumers == 1..NumConsumers
Priorities == {8, 9}
OnePriority == {8}
SeqPriorities == {5, 8, 9}
AgeSamples == {0, 1, 99, 100, 499, 500, 10000, INT_MAX}
IntervalSamples == {0, 1, 100, 500}
DataValues == {5}

VARIABLES
  q,                    \* Queue: buffer, front, rear, count, capacity, shutdown
  slots_available,      \* counting semaphore, value
  items_available,      \* counting semaphore, value
  mutex,                \* "free" or the thread that holds q->mutex
  aging,                \* the aging interval in ms (0 = disabled)
  prios,                \* the priorities the producers of this run draw from
  now,                  \* wall clock in ms
  running,              \* main.c: static volatile sig_atomic_t running
  shutdown_in_progress, \* main.c: static volatile sig_atomic_t shutdown_in_progress
  queue_initialized,    \* main.c: static int queue_initialized
  prod,                 \* per producer thread: position, locals, ProducerStats
  cons,                 \* per consumer thread: position, locals, ConsumerStats
  sup,                  \* the supervisor (main): position and loop index
  signals,              \* number of stop signals delivered so far
  enq_count,            \* history: number of messages written to the buffer so far
  stored,               \* history: uids of the messages whose enqueue left its critical section
  returned,             \* history: uids of the messages returned by a dequeue
  dup_return,           \* history: a dequeue returned a uid that was returned before
  shutdown_calls,       \* history: number of times queue_shutdown was entered
  rng,                  \* utils.c: the state of the shared generator behind rand()
  analytics,            \* main.c: static Analytics analytics
  sampler,              \* the sampling thread: position and locals
  mono,                 \* CLOCK_MONOTONIC, as time_elapsed() reads it
  seq                   \* history of the single-threaded runs: messages put in and taken out

vars == <<q, slots_available, items_available, mutex, aging, prios, now, running,
          shutdown_in_progress, queue_initialized, prod, cons, sup,
          signals, enq_count, stored, returned, dup_return, shutdown_calls,
          rng, analytics, sampler, mono, seq>>

(* ---------------- Message ---------------- *)
\* uid and seq are history fields: uid names the message, seq is the order in
\* which internal_enqueue stored it.
Message(data, priority, producer_id, timestamp, uid) ==
  [data |-> data, priority |-> priority, producer_id |-> producer_id,
   timestamp |-> timestamp, uid |-> uid, seq |-> 0]

\* memset(q->buffer, 0, sizeof(q->buffer))
ZeroMessage == Message(0, 0, 0, 0, 0)

\* message_create: the timestamp is the clock at creation
message_create(data, priority, producer_id, uid) ==
  Message(data, priority, producer_id, now, uid)

(* ---------------- int arithmetic ---------------- *)
\* a + b in a C int for a, b >= 0; on signed overflow the wrapped
\* two's-complement value (a + b - 2^32)
IntAddWrap(a, b) ==
  IF a > INT_MAX - b
  THEN (a - INT_MAX - 1) + (b - INT_MAX - 1)
  ELSE a + b

IntAddOverflows(a, b) == a > INT_MAX - b

(* ---------------- effective_priority ---------------- *)
\* a boost that never grows
effective_boost_none(msg, now_ms, interval) == 0

\* long wait = now_ms - msg->timestamp; boost = (int)(wait / AGING_INTERVAL_MS)
\* when wait > 0 and the interval > 0. (The clock of the model stays within
\* an int, so the quotient always fits the cast.)
effective_boost(msg, now_ms, interval) ==
  LET wait == now_ms - msg.timestamp
  IN IF wait > 0 /\ interval > 0 THEN wait \div interval ELSE 0

effective_priority(msg, now_ms, interval) ==
  LET eff == IntAddWrap(msg.priority, effective_boost(msg, now_ms, interval))
  IN IF eff > PRIORITY_MAX THEN PRIORITY_MAX ELSE eff

\* The results a build can produce: priority + boost is undefined on signed
\* overflow; a build either wraps or keeps the comparison eff > PRIORITY_MAX
\* true as if no overflow had happened.
effective_priority_outcomes(msg, now_ms, interval) ==
  IF IntAddOverflows(msg.priority, effective_boost(msg, now_ms, interval))
  THEN {effective_priority(msg, now_ms, interval), PRIORITY_MAX}
  ELSE {effective_priority(msg, now_ms, interval)}

(* ---------------- find_highest_priority_index ---------------- *)
\* a scan in which the later of two messages of equal effective priority and
\* equal timestamp wins
RECURSIVE scan_from_last_wins(_, _, _, _, _)
scan_from_last_wins(qq, now_ms, interval, i, best) ==
  IF i >= qq.count THEN best[1]
  ELSE
    LET current_index == (qq.front + i) % qq.capacity
        eff == effective_priority(qq.buffer[current_index], now_ms, interval)
        ts == qq.buffer[current_index].timestamp
        nb == IF eff > best[2] THEN <<current_index, eff, ts>>
              ELSE IF eff = best[2] /\ ts <= best[3] THEN <<current_index, best[2], ts>>
              ELSE best
    IN scan_from_last_wins(qq, now_ms, interval, i + 1, nb)

\* The loop body for i, carrying <<highest_index, highest_priority, oldest_timestamp>>
RECURSIVE scan_from(_, _, _, _, _)
scan_from(qq, now_ms, interval, i, best) ==
  IF i >= qq.count THEN best[1]
  ELSE
    LET current_index == (qq.front + i) % qq.capacity
        eff == effective_priority(qq.buffer[current_index], now_ms, interval)
        ts == qq.buffer[current_index].timestamp
        nb == IF eff > best[2] THEN <<current_index, eff, ts>>
              ELSE IF eff = best[2] /\ ts < best[3] THEN <<current_index, best[2], ts>>
              ELSE best
    IN scan_from(qq, now_ms, interval, i + 1, nb)

\* a scan that always takes the message at the front
find_highest_priority_index_fifo(qq, now_ms, interval) ==
  IF qq.count = 0 THEN -1 ELSE qq.front

find_highest_priority_index(qq, now_ms, interval) ==
  IF qq.count = 0 THEN -1
  ELSE scan_from(qq, now_ms, interval, 0,
                 <<qq.front,
                   effective_priority(qq.buffer[qq.front], now_ms, interval),
                   qq.buffer[qq.front].timestamp>>)

(* ---------------- queue_init ---------------- *)
\* a range check that has lost its upper limit
queue_init_result_no_upper(capacity) ==
  IF capacity < MIN_QUEUE_SIZE THEN -1 ELSE 0

\* if (capacity < MIN_QUEUE_SIZE || capacity > MAX_QUEUE_SIZE) return -1;
\* (pthread_mutex_init with default attributes and sem_init with a value of
\* at most MAX_QUEUE_SIZE are taken to succeed)
queue_init_result(capacity) ==
  IF capacity < MIN_QUEUE_SIZE \/ capacity > MAX_QUEUE_SIZE THEN -1 ELSE 0

\* the data set-up of a call that passed the range check
queue_init(capacity) ==
  [buffer |-> [s \in 0..(capacity - 1) |-> ZeroMessage],
   front |-> 0, rear |-> 0, count |-> 0, capacity |-> capacity, shutdown |-> 0]

(* ---------------- internal_enqueue ---------------- *)
\* result of the overflow check
internal_enqueue_result(qq) == IF qq.count >= qq.capacity THEN -1 ELSE 0

\* a write whose rear runs on past the end of the array
internal_enqueue_write_nowrap(qq, msg) ==
  IF internal_enqueue_result(qq) # 0 THEN qq
  ELSE [qq EXCEPT !.buffer[qq.rear] = msg,
                  !.rear = qq.rear + 1]

\* q->buffer[q->rear] = msg; q->rear = (q->rear + 1) % q->capacity;
internal_enqueue_write(qq, msg) ==
  IF internal_enqueue_result(qq) # 0 THEN qq
  ELSE [qq EXCEPT !.buffer[qq.rear] = msg,
                  !.rear = (qq.rear + 1) % qq.capacity]

\* an enqueue that leaves the count where it is
internal_enqueue_count_none(qq) == qq

\* q->count++;
internal_enqueue_count(qq) == [qq EXCEPT !.count = qq.count + 1]

internal_enqueue(qq, msg) ==
  IF internal_enqueue_result(qq) # 0 THEN qq
  ELSE internal_enqueue_count(internal_enqueue_write(qq, msg))

(* ---------------- internal_dequeue ---------------- *)
internal_dequeue_result(qq, now_ms, interval) ==
  IF qq.count = 0 THEN -1
  ELSE IF find_highest_priority_index(qq, now_ms, interval) < 0 THEN -1
  ELSE 0

\* *msg = q->buffer[highest_index];
internal_dequeue_msg(qq, now_ms, interval) ==
  qq.buffer[find_highest_priority_index(qq, now_ms, interval)]

\* a loop that moves nothing
shift_loop_none(buffer, current_index, front, capacity) == buffer

\* the while loop that moves the predecessors of highest_index one slot up
RECURSIVE shift_loop(_, _, _, _)
shift_loop(buffer, current_index, front, capacity) ==
  IF current_index = front THEN buffer
  ELSE LET next_index == (current_index - 1 + capacity) % capacity
       IN shift_loop([buffer EXCEPT ![current_index] = buffer[next_index]],
                     next_index, front, capacity)

\* a removal that advances front without filling the gap
internal_dequeue_shift_none(qq, now_ms, interval) ==
  IF internal_dequeue_result(qq, now_ms, interval) # 0 THEN qq
  ELSE [qq EXCEPT !.front = (qq.front + 1) % qq.capacity]

\* the gap-filling shift and q->front = (q->front + 1) % q->capacity
internal_dequeue_shift(qq, now_ms, interval) ==
  IF internal_dequeue_result(qq, now_ms, interval) # 0 THEN qq
  ELSE
    LET highest_index == find_highest_priority_index(qq, now_ms, interval)
    IN IF highest_index = qq.front
       THEN [qq EXCEPT !.front = (qq.front + 1) % qq.capacity]
       ELSE [qq EXCEPT !.buffer = shift_loop(qq.buffer, highest_index, qq.front, qq.capacity),
                       !.front = (qq.front + 1) % qq.capacity]

\* a dequeue that takes the count down twice
internal_dequeue_count_twice(qq) == [qq EXCEPT !.count = qq.count - 2]

\* q->count--;
internal_dequeue_count(qq) == [qq EXCEPT !.count = qq.count - 1]

internal_dequeue(qq, now_ms, interval) ==
  IF internal_dequeue_result(qq, now_ms, interval) # 0 THEN qq
  ELSE internal_dequeue_count(internal_dequeue_shift(qq, now_ms, interval))

\* the uids of the messages in the live window
WindowUids(qq) == {qq.buffer[(qq.front + i) % qq.capacity].uid : i \in 0..(qq.count - 1)}

\* the live window of the ring, front first
Window(qq) == [i \in 1..qq.count |-> qq.buffer[(qq.front + i - 1) % qq.capacity]]


(* ---------------- threads ---------------- *)
NoThread == <<"none", 0>>
\* q->mutex before pthread_mutex_init, and a sem_t before sem_init
UninitMutex == <<"uninit", 0>>
SemUninit == -1
\* q->mutex (and with it both semaphores) after queue_destroy
DestroyedMutex == <<"destroyed", 0>>
MainThread == <<"main", 0>>
ProducerThread(i) == <<"producer", i>>
ConsumerThread(j) == <<"consumer", j>>

flagvars == <<running, shutdown_in_progress, queue_initialized>>
histvars == <<enq_count, stored, returned, dup_return, shutdown_calls>>
envvars == <<aging, prios, signals, rng, seq>>
anvars == <<analytics, sampler, mono>>

\* sem_wait and sem_trywait succeed on a positive value
sem_can_take(value) == value > 0

(* ---------------- producer_thread (producer.c) ---------------- *)
\* try_failed, eintr_count, after_stop and sig_locked are history fields: the
\* first sem_trywait of the call failed; the number of times a sem_wait of
\* this thread returned EINTR; the number of messages the thread counted
\* while running was 0; signal_handler ran on the thread while it held q->mutex.
\* rec, after and tmp belong to the calls into analytics.c: the
\* analytics_record_* calls still to make, the position to go on from after
\* them, and the counter value read under the analytics mutex
ProducerInit ==
  [pc |-> "idle", msg |-> ZeroMessage, blocked |-> 0, was_blocked |-> 0,
   result |-> 0, messages_produced |-> 0, times_blocked |-> 0,
   try_failed |-> FALSE, eintr |-> FALSE, eintr_count |-> 0, after_stop |-> 0,
   sig_locked |-> FALSE, rec |-> <<>>, after |-> "", tmp |-> 0,
   unexpected |-> FALSE]

\* a producer that counts a message whether or not the enqueue succeeded
producer_result_counts_all(p, result) ==
  LET tb == IF p.was_blocked # 0 THEN p.times_blocked + 1 ELSE p.times_blocked
      r == [p EXCEPT !.times_blocked = tb, !.msg = ZeroMessage, !.blocked = 0,
                     !.was_blocked = 0, !.result = 0, !.try_failed = FALSE,
                     !.messages_produced = p.messages_produced + 1]
  IN IF result # 0
     THEN [r EXCEPT !.pc = "done"]
     ELSE [r EXCEPT !.pc = "p_loop"]

\* if (args->analytics) analytics_record_...(args->analytics): with analytics
\* attached the worker w makes the calls named by their counters before it
\* goes on
record_calls(w, calls) ==
  IF analytics.attached /\ calls # <<>>
  THEN [w EXCEPT !.rec = calls, !.after = w.pc, !.pc = "rec_lock"]
  ELSE w

\* producer_thread after queue_enqueue_safe has returned result:
\* if (was_blocked) { times_blocked++; analytics_record_producer_block }
\* if (result != 0) { if (*(args->running)) "Enqueue failed (unexpected)";
\* break; } messages_produced++; analytics_record_produce
\* The locals of a call that succeeded are dead and are cleared; a thread
\* that leaves its loop on a failed call keeps the result, and unexpected
\* says that it read running as set after the failure.
producer_result(p, result) ==
  LET tb == IF p.was_blocked # 0 THEN p.times_blocked + 1 ELSE p.times_blocked
      r == [p EXCEPT !.times_blocked = tb, !.msg = ZeroMessage, !.blocked = 0,
                     !.was_blocked = 0, !.result = 0, !.try_failed = FALSE]
      calls == (IF p.was_blocked # 0 THEN <<"total_producer_blocks">> ELSE <<>>)
               \o (IF result = 0 THEN <<"total_produced">> ELSE <<>>)
      r2 == IF result # 0
            THEN [r EXCEPT !.pc = "done", !.result = result,
                           !.unexpected = (running # 0)]
            ELSE [r EXCEPT !.pc = "p_loop", !.messages_produced = p.messages_produced + 1,
                           !.after_stop = IF running = 0 THEN p.after_stop + 1
                                          ELSE p.after_stop]
  IN record_calls(r2, calls)

\* while (*(args->running)) { generate; message_create; was_blocked = 0; ...
ProducerLoop(i) ==
  /\ prod[i].pc = "p_loop"
  /\ IF running = 0
     THEN prod' = [prod EXCEPT ![i].pc = "done"]
     ELSE /\ prod[i].messages_produced < MaxOps
          /\ \E data \in DataValues, priority \in prios :
               prod' = [prod EXCEPT
                 ![i].pc = "enq_entry",
                 ![i].msg = message_create(data, priority, i,
                              (i - 1) * MaxOps + prod[i].messages_produced + 1),
                 ![i].was_blocked = 0]
  /\ UNCHANGED <<q, slots_available, items_available, mutex, now, flagvars,
                 cons, sup, histvars, envvars, anvars>>

\* queue_enqueue_safe: int blocked = 0; if (q->shutdown) return -1;
EnqEntry(i) ==
  /\ prod[i].pc = "enq_entry"
  /\ IF q.shutdown = 1
     THEN prod' = [prod EXCEPT ![i] = producer_result(prod[i], -1)]
     ELSE prod' = [prod EXCEPT ![i].pc = "enq_try", ![i].blocked = 0]
  /\ UNCHANGED <<q, slots_available, items_available, mutex, now, flagvars,
                 cons, sup, histvars, envvars, anvars>>

\* an acquire that parks on EAGAIN without recording it in blocked
EnqTryUnrecorded(i) ==
  /\ prod[i].pc = "enq_try"
  /\ IF sem_can_take(slots_available)
     THEN /\ slots_available' = slots_available - 1
          /\ prod' = [prod EXCEPT ![i].pc = "enq_recheck", ![i].try_failed = FALSE]
     ELSE /\ slots_available' = slots_available
          /\ prod' = [prod EXCEPT ![i].pc = "enq_wait", ![i].try_failed = TRUE]
  /\ UNCHANGED <<q, items_available, mutex, now, flagvars,
                 cons, sup, histvars, envvars, anvars>>

\* result = sem_trywait(&q->slots_available); EAGAIN: blocked = 1
EnqTry(i) ==
  /\ prod[i].pc = "enq_try"
  /\ IF sem_can_take(slots_available)
     THEN /\ slots_available' = slots_available - 1
          /\ prod' = [prod EXCEPT ![i].pc = "enq_recheck", ![i].try_failed = FALSE]
     ELSE /\ slots_available' = slots_available
          /\ prod' = [prod EXCEPT ![i].pc = "enq_wait", ![i].blocked = 1,
                                  ![i].try_failed = TRUE]
  /\ UNCHANGED <<q, items_available, mutex, now, flagvars,
                 cons, sup, histvars, envvars, anvars>>

\* sem_wait(&q->slots_available) returns 0
EnqWait(i) ==
  /\ prod[i].pc = "enq_wait"
  /\ ~prod[i].eintr
  /\ sem_can_take(slots_available)
  /\ slots_available' = slots_available - 1
  /\ prod' = [prod EXCEPT ![i].pc = "enq_recheck"]
  /\ UNCHANGED <<q, items_available, mutex, now, flagvars,
                 cons, sup, histvars, envvars, anvars>>

\* sem_wait returns -1 with EINTR: retried while !q->shutdown, else return -1
EnqEintr(i) ==
  /\ prod[i].pc = "enq_wait"
  /\ prod[i].eintr
  /\ LET p == [prod[i] EXCEPT !.eintr = FALSE, !.eintr_count = prod[i].eintr_count + 1]
     IN IF q.shutdown = 0
        THEN prod' = [prod EXCEPT ![i] = p]
        ELSE prod' = [prod EXCEPT ![i] = producer_result(p, -1)]
  /\ UNCHANGED <<q, slots_available, items_available, mutex, now, flagvars,
                 cons, sup, histvars, envvars, anvars>>

\* an enqueue that does not look at q->shutdown once it has its token
EnqRecheckBlind(i) ==
  /\ prod[i].pc = "enq_recheck"
  /\ slots_available' = slots_available
  /\ prod' = [prod EXCEPT ![i].pc = "enq_lock", ![i].was_blocked = prod[i].blocked]
  /\ UNCHANGED <<q, items_available, mutex, now, flagvars,
                 cons, sup, histvars, envvars, anvars>>

\* a re-check that returns under shutdown and keeps the token it took
EnqRecheckKeep(i) ==
  /\ prod[i].pc = "enq_recheck"
  /\ slots_available' = slots_available
  /\ IF q.shutdown = 1
     THEN prod' = [prod EXCEPT ![i] = producer_result(prod[i], -1)]
     ELSE prod' = [prod EXCEPT ![i].pc = "enq_lock",
                               ![i].was_blocked = prod[i].blocked]
  /\ UNCHANGED <<q, items_available, mutex, now, flagvars,
                 cons, sup, histvars, envvars, anvars>>

\* with the token: if (q->shutdown) { sem_post(slots); return -1; }
\* (after the blocking wait and again before the critical section)
\* if (was_blocked) *was_blocked = blocked;
EnqRecheck(i) ==
  /\ prod[i].pc = "enq_recheck"
  /\ IF q.shutdown = 1
     THEN /\ slots_available' = slots_available + 1
          /\ prod' = [prod EXCEPT ![i] = producer_result(prod[i], -1)]
     ELSE /\ slots_available' = slots_available
          /\ prod' = [prod EXCEPT ![i].pc = "enq_lock",
                                  ![i].was_blocked = prod[i].blocked]
  /\ UNCHANGED <<q, items_available, mutex, now, flagvars,
                 cons, sup, histvars, envvars, anvars>>

\* an enqueue that enters its critical section without waiting for the mutex
EnqLockNoWait(i) ==
  /\ prod[i].pc = "enq_lock"
  /\ mutex' = ProducerThread(i)
  /\ LET res == internal_enqueue_result(q)
         m == [prod[i].msg EXCEPT !.seq = enq_count + 1]
     IN /\ prod' = [prod EXCEPT ![i].pc = "enq_unlock", ![i].result = res]
        /\ q' = internal_enqueue_write(q, m)
        /\ enq_count' = IF res = 0 THEN enq_count + 1 ELSE enq_count
  /\ UNCHANGED <<slots_available, items_available, now, flagvars,
                 cons, sup, stored, returned, dup_return, shutdown_calls, envvars, anvars>>

\* pthread_mutex_lock; internal_enqueue: overflow check, buffer write, rear
EnqLock(i) ==
  /\ prod[i].pc = "enq_lock"
  /\ mutex = NoThread
  /\ mutex' = ProducerThread(i)
  /\ LET res == internal_enqueue_result(q)
         m == [prod[i].msg EXCEPT !.seq = enq_count + 1]
     IN /\ prod' = [prod EXCEPT ![i].pc = "enq_unlock", ![i].result = res]
        /\ q' = internal_enqueue_write(q, m)
        /\ enq_count' = IF res = 0 THEN enq_count + 1 ELSE enq_count
  /\ UNCHANGED <<slots_available, items_available, now, flagvars,
                 cons, sup, stored, returned, dup_return, shutdown_calls, envvars, anvars>>

\* internal_enqueue: q->count++; pthread_mutex_unlock;
\* if internal_enqueue failed: sem_post(&q->slots_available); return -1;
EnqUnlock(i) ==
  /\ prod[i].pc = "enq_unlock"
  /\ mutex = ProducerThread(i)
  /\ mutex' = NoThread
  /\ IF prod[i].result = 0
     THEN /\ q' = internal_enqueue_count(q)
          /\ prod' = [prod EXCEPT ![i].pc = "enq_post"]
          /\ slots_available' = slots_available
          /\ stored' = stored \cup {prod[i].msg.uid}
     ELSE /\ q' = q
          /\ prod' = [prod EXCEPT ![i] = producer_result(prod[i], -1)]
          /\ slots_available' = slots_available + 1
          /\ stored' = stored
  /\ UNCHANGED <<items_available, now, flagvars,
                 cons, sup, enq_count, returned, dup_return, shutdown_calls, envvars, anvars>>

\* an enqueue that returns without posting the stored item
EnqPostNone(i) ==
  /\ prod[i].pc = "enq_post"
  /\ items_available' = items_available
  /\ prod' = [prod EXCEPT ![i] = producer_result(prod[i], 0)]
  /\ UNCHANGED <<q, slots_available, mutex, now, flagvars,
                 cons, sup, histvars, envvars, anvars>>

\* sem_post(&q->items_available); return 0;
EnqPost(i) ==
  /\ prod[i].pc = "enq_post"
  /\ items_available' = items_available + 1
  /\ prod' = [prod EXCEPT ![i] = producer_result(prod[i], 0)]
  /\ UNCHANGED <<q, slots_available, mutex, now, flagvars,
                 cons, sup, histvars, envvars, anvars>>

ProducerStep(i) ==
  \/ ProducerLoop(i) \/ EnqEntry(i) \/ EnqTry(i) \/ EnqWait(i) \/ EnqEintr(i)
  \/ EnqRecheck(i) \/ EnqLock(i) \/ EnqUnlock(i) \/ EnqPost(i)

(* ---------------- consumer_thread (consumer.c) ---------------- *)
ConsumerInit ==
  [pc |-> "idle", msg |-> ZeroMessage, blocked |-> 0, was_blocked |-> 0,
   result |-> 0, messages_consumed |-> 0, times_blocked |-> 0,
   try_failed |-> FALSE, eintr |-> FALSE, eintr_count |-> 0, after_stop |-> 0,
   sig_locked |-> FALSE, rec |-> <<>>, after |-> "", tmp |-> 0,
   unexpected |-> FALSE]

\* consumer_thread after queue_dequeue_safe has returned result:
\* if (was_blocked) { times_blocked++; analytics_record_consumer_block }
\* if (result != 0) { if (*(args->running)) "Dequeue failed (unexpected)";
\* break; } messages_consumed++; analytics_record_consume
\* The locals of the finished call are dead and are cleared.
consumer_result(c, result) ==
  LET tb == IF c.was_blocked # 0 THEN c.times_blocked + 1 ELSE c.times_blocked
      r == [c EXCEPT !.times_blocked = tb, !.msg = ZeroMessage, !.blocked = 0,
                     !.was_blocked = 0, !.result = 0, !.try_failed = FALSE]
      calls == (IF c.was_blocked # 0 THEN <<"total_consumer_blocks">> ELSE <<>>)
               \o (IF result = 0 THEN <<"total_consumed">> ELSE <<>>)
      r2 == IF result # 0
            THEN [r EXCEPT !.pc = "done", !.result = result,
                           !.unexpected = (running # 0)]
            ELSE [r EXCEPT !.pc = "c_loop", !.messages_consumed = c.messages_consumed + 1,
                           !.after_stop = IF running = 0 THEN c.after_stop + 1
                                          ELSE c.after_stop]
  IN record_calls(r2, calls)

\* a loop that tests running only after its first message (do ... while)
ConsumerLoopLate(j) ==
  /\ cons[j].pc = "c_loop"
  /\ IF running = 0 /\ cons[j].messages_consumed > 0
     THEN cons' = [cons EXCEPT ![j].pc = "done"]
     ELSE cons' = [cons EXCEPT ![j].pc = "deq_entry", ![j].was_blocked = 0]
  /\ UNCHANGED <<q, slots_available, items_available, mutex, now, flagvars,
                 prod, sup, histvars, envvars, anvars>>

\* a loop that goes on without looking at running
ConsumerLoopDeaf(j) ==
  /\ cons[j].pc = "c_loop"
  /\ cons' = [cons EXCEPT ![j].pc = "deq_entry", ![j].was_blocked = 0]
  /\ UNCHANGED <<q, slots_available, items_available, mutex, now, flagvars,
                 prod, sup, histvars, envvars, anvars>>

\* while (*(args->running)) { was_blocked = 0; ...
ConsumerLoop(j) ==
  /\ cons[j].pc = "c_loop"
  /\ IF running = 0
     THEN cons' = [cons EXCEPT ![j].pc = "done"]
     ELSE cons' = [cons EXCEPT ![j].pc = "deq_entry", ![j].was_blocked = 0]
  /\ UNCHANGED <<q, slots_available, items_available, mutex, now, flagvars,
                 prod, sup, histvars, envvars, anvars>>

\* a dequeue without the test of q->shutdown at its entry
DeqEntryBlind(j) ==
  /\ cons[j].pc = "deq_entry"
  /\ cons' = [cons EXCEPT ![j].pc = "deq_try", ![j].blocked = 0]
  /\ UNCHANGED <<q, slots_available, items_available, mutex, now, flagvars,
                 prod, sup, histvars, envvars, anvars>>

\* queue_dequeue_safe: int blocked = 0; if (q->shutdown) return -1;
DeqEntry(j) ==
  /\ cons[j].pc = "deq_entry"
  /\ IF q.shutdown = 1
     THEN cons' = [cons EXCEPT ![j] = consumer_result(cons[j], -1)]
     ELSE cons' = [cons EXCEPT ![j].pc = "deq_try", ![j].blocked = 0]
  /\ UNCHANGED <<q, slots_available, items_available, mutex, now, flagvars,
                 prod, sup, histvars, envvars, anvars>>

\* result = sem_trywait(&q->items_available); EAGAIN: blocked = 1
DeqTry(j) ==
  /\ cons[j].pc = "deq_try"
  /\ IF sem_can_take(items_available)
     THEN /\ items_available' = items_available - 1
          /\ cons' = [cons EXCEPT ![j].pc = "deq_recheck", ![j].try_failed = FALSE]
     ELSE /\ items_available' = items_available
          /\ cons' = [cons EXCEPT ![j].pc = "deq_wait", ![j].blocked = 1,
                                  ![j].try_failed = TRUE]
  /\ UNCHANGED <<q, slots_available, mutex, now, flagvars,
                 prod, sup, histvars, envvars, anvars>>

\* sem_wait(&q->items_available) returns 0
DeqWait(j) ==
  /\ cons[j].pc = "deq_wait"
  /\ ~cons[j].eintr
  /\ sem_can_take(items_available)
  /\ items_available' = items_available - 1
  /\ cons' = [cons EXCEPT ![j].pc = "deq_recheck"]
  /\ UNCHANGED <<q, slots_available, mutex, now, flagvars,
                 prod, sup, histvars, envvars, anvars>>

\* an interrupted wait that posts a token when it gives up under shutdown
DeqEintrPost(j) ==
  /\ cons[j].pc = "deq_wait"
  /\ cons[j].eintr
  /\ LET c == [cons[j] EXCEPT !.eintr = FALSE, !.eintr_count = cons[j].eintr_count + 1]
     IN IF q.shutdown = 0
        THEN /\ cons' = [cons EXCEPT ![j] = c]
             /\ items_available' = items_available
        ELSE /\ cons' = [cons EXCEPT ![j] = consumer_result(c, -1)]
             /\ items_available' = items_available + 1
  /\ UNCHANGED <<q, slots_available, mutex, now, flagvars,
                 prod, sup, histvars, envvars, anvars>>

\* sem_wait returns -1 with EINTR: retried while !q->shutdown, else return -1
DeqEintr(j) ==
  /\ cons[j].pc = "deq_wait"
  /\ cons[j].eintr
  /\ LET c == [cons[j] EXCEPT !.eintr = FALSE, !.eintr_count = cons[j].eintr_count + 1]
     IN IF q.shutdown = 0
        THEN cons' = [cons EXCEPT ![j] = c]
        ELSE cons' = [cons EXCEPT ![j] = consumer_result(c, -1)]
  /\ UNCHANGED <<q, slots_available, items_available, mutex, now, flagvars,
                 prod, sup, histvars, envvars, anvars>>

\* a dequeue that writes *was_blocked before it looks at q->shutdown
DeqRecheckEarlyWrite(j) ==
  /\ cons[j].pc = "deq_recheck"
  /\ IF q.shutdown = 1
     THEN /\ items_available' = items_available + 1
          /\ cons' = [cons EXCEPT ![j] =
                       consumer_result([cons[j] EXCEPT !.was_blocked = cons[j].blocked], -1)]
     ELSE /\ items_available' = items_available
          /\ cons' = [cons EXCEPT ![j].pc = "deq_lock",
                                  ![j].was_blocked = cons[j].blocked]
  /\ UNCHANGED <<q, slots_available, mutex, now, flagvars,
                 prod, sup, histvars, envvars, anvars>>

\* with the token: if (q->shutdown) { sem_post(items); return -1; }
\* (after the blocking wait and again before the critical section)
\* if (was_blocked) *was_blocked = blocked;
DeqRecheck(j) ==
  /\ cons[j].pc = "deq_recheck"
  /\ IF q.shutdown = 1
     THEN /\ items_available' = items_available + 1
          /\ cons' = [cons EXCEPT ![j] = consumer_result(cons[j], -1)]
     ELSE /\ items_available' = items_available
          /\ cons' = [cons EXCEPT ![j].pc = "deq_lock",
                                  ![j].was_blocked = cons[j].blocked]
  /\ UNCHANGED <<q, slots_available, mutex, now, flagvars,
                 prod, sup, histvars, envvars, anvars>>

\* pthread_mutex_lock; internal_dequeue: underflow check, priority scan at
\* the current time, copy of the message, gap-filling shift, front
DeqLock(j) ==
  /\ cons[j].pc = "deq_lock"
  /\ mutex = NoThread
  /\ mutex' = ConsumerThread(j)
  /\ LET res == internal_dequeue_result(q, now, aging)
     IN IF res = 0
        THEN LET m == internal_dequeue_msg(q, now, aging)
             IN /\ cons' = [cons EXCEPT ![j].pc = "deq_unlock", ![j].result = 0,
                                        ![j].msg = m]
                /\ q' = internal_dequeue_shift(q, now, aging)
                /\ returned' = returned \cup {m.uid}
                /\ dup_return' = (dup_return \/ m.uid \in returned)
        ELSE /\ cons' = [cons EXCEPT ![j].pc = "deq_unlock", ![j].result = res]
             /\ UNCHANGED <<q, returned, dup_return>>
  /\ UNCHANGED <<slots_available, items_available, now, flagvars,
                 prod, sup, enq_count, stored, shutdown_calls, envvars, anvars>>

\* a dequeue that goes on without giving the mutex back
DeqUnlockKeep(j) ==
  /\ cons[j].pc = "deq_unlock"
  /\ mutex = ConsumerThread(j)
  /\ mutex' = mutex
  /\ IF cons[j].result = 0
     THEN /\ q' = internal_dequeue_count(q)
          /\ cons' = [cons EXCEPT ![j].pc = "deq_post"]
          /\ items_available' = items_available
     ELSE /\ q' = q
          /\ cons' = [cons EXCEPT ![j] = consumer_result(cons[j], -1)]
          /\ items_available' = items_available + 1
  /\ UNCHANGED <<slots_available, now, flagvars,
                 prod, sup, histvars, envvars, anvars>>

\* internal_dequeue: q->count--; pthread_mutex_unlock;
\* if internal_dequeue failed: sem_post(&q->items_available); return -1;
DeqUnlock(j) ==
  /\ cons[j].pc = "deq_unlock"
  /\ mutex = ConsumerThread(j)
  /\ mutex' = NoThread
  /\ IF cons[j].result = 0
     THEN /\ q' = internal_dequeue_count(q)
          /\ cons' = [cons EXCEPT ![j].pc = "deq_post"]
          /\ items_available' = items_available
     ELSE /\ q' = q
          /\ cons' = [cons EXCEPT ![j] = consumer_result(cons[j], -1)]
          /\ items_available' = items_available + 1
  /\ UNCHANGED <<slots_available, now, flagvars,
                 prod, sup, histvars, envvars, anvars>>

\* a dequeue that returns without posting the freed slot
DeqPostNone(j) ==
  /\ cons[j].pc = "deq_post"
  /\ slots_available' = slots_available
  /\ cons' = [cons EXCEPT ![j] = consumer_result(cons[j], 0)]
  /\ UNCHANGED <<q, items_available, mutex, now, flagvars,
                 prod, sup, histvars, envvars, anvars>>

\* sem_post(&q->slots_available); return 0;
DeqPost(j) ==
  /\ cons[j].pc = "deq_post"
  /\ slots_available' = slots_available + 1
  /\ cons' = [cons EXCEPT ![j] = consumer_result(cons[j], 0)]
  /\ UNCHANGED <<q, items_available, mutex, now, flagvars,
                 prod, sup, histvars, envvars, anvars>>

ConsumerStep(j) ==
  \/ ConsumerLoop(j) \/ DeqEntry(j) \/ DeqTry(j) \/ DeqWait(j) \/ DeqEintr(j)
  \/ DeqRecheck(j) \/ DeqLock(j) \/ DeqUnlock(j) \/ DeqPost(j)

(* ---------------- queue_shutdown (queue.c) ---------------- *)
\* a shutdown that empties a queue whose flag is already set
queue_shutdown_flag_drop(qq) ==
  [qq EXCEPT !.shutdown = 1, !.count = IF qq.shutdown = 1 THEN 0 ELSE qq.count]

\* a shutdown that flips the flag instead of setting it
queue_shutdown_flag_toggle(qq) == [qq EXCEPT !.shutdown = 1 - qq.shutdown]

\* q->shutdown = 1;
queue_shutdown_flag(qq) == [qq EXCEPT !.shutdown = 1]

\* for (i = 0; i < MAX_PRODUCERS + MAX_CONSUMERS; i++)
queue_shutdown_posts == MAX_PRODUCERS + MAX_CONSUMERS

\* a shutdown that sets the flag and posts nothing
queue_shutdown_post_none(value) == value

\* the value of a semaphore after the loop has posted it
\* MAX_PRODUCERS + MAX_CONSUMERS times
queue_shutdown_post(value) == value + queue_shutdown_posts

(* ---------------- supervisor: main (main.c) ---------------- *)
\* joined is the history of wait_for_threads: the threads pthread_join
\* returned for; create_failed says that main took the branch of line 153
SupInit ==
  [pc |-> "create_producers", i |-> 0, num_producers_created |-> 0,
   num_consumers_created |-> 0, balance |-> "none", create_failed |-> FALSE,
   joined |-> {}]

RECURSIVE SumProduced(_)
SumProduced(n) ==
  IF n = 0 THEN 0 ELSE prod[n].messages_produced + SumProduced(n - 1)

RECURSIVE SumConsumed(_)
SumConsumed(n) ==
  IF n = 0 THEN 0 ELSE cons[n].messages_consumed + SumConsumed(n - 1)

\* create_producers: pthread_create(producer_thread); num_producers_created++
SupCreateProducer ==
  /\ sup.pc = "create_producers"
  /\ IF sup.i < NumProducers
     THEN /\ prod' = [prod EXCEPT ![sup.i + 1].pc = "p_loop"]
          /\ sup' = [sup EXCEPT !.i = sup.i + 1,
                                !.num_producers_created = sup.num_producers_created + 1]
     ELSE /\ prod' = prod
          /\ sup' = [sup EXCEPT !.pc = "create_consumers", !.i = 0]
  /\ UNCHANGED <<q, slots_available, items_available, mutex, now, flagvars,
                 cons, histvars, envvars, anvars>>

\* create_consumers: pthread_create(consumer_thread); num_consumers_created++
SupCreateConsumer ==
  /\ sup.pc = "create_consumers"
  /\ IF sup.i < NumConsumers
     THEN /\ cons' = [cons EXCEPT ![sup.i + 1].pc = "c_loop"]
          /\ sup' = [sup EXCEPT !.i = sup.i + 1,
                                !.num_consumers_created = sup.num_consumers_created + 1]
     ELSE /\ cons' = cons
          /\ sup' = [sup EXCEPT !.pc = IF analytics.attached THEN "start_sampling"
                                       ELSE "wait_loop",
                                !.i = 0]
  /\ UNCHANGED <<q, slots_available, items_available, mutex, now, flagvars,
                 prod, histvars, envvars, anvars>>

\* after initiate_shutdown main calls finalize_shutdown and then
\* wait_for_threads; finalize_shutdown acts on the analytics only
AfterShutdown == IF analytics.attached THEN "finalize" ELSE "join_producers"

\* while (elapsed < timeout_seconds && running): left on timeout or on !running
SupWait ==
  /\ sup.pc = "wait_loop"
  /\ sup' = [sup EXCEPT !.pc = "check_sip"]
  /\ UNCHANGED <<q, slots_available, items_available, mutex, now, flagvars,
                 prod, cons, histvars, envvars, anvars>>

\* if (!shutdown_in_progress) initiate_shutdown(): if (shutdown_in_progress) return;
SupCheckSip ==
  /\ sup.pc = "check_sip"
  /\ IF shutdown_in_progress = 0
     THEN sup' = [sup EXCEPT !.pc = "set_sip"]
     ELSE sup' = [sup EXCEPT !.pc = AfterShutdown, !.i = 0]
  /\ UNCHANGED <<q, slots_available, items_available, mutex, now, flagvars,
                 prod, cons, histvars, envvars, anvars>>

\* initiate_shutdown: shutdown_in_progress = 1;
SupSetSip ==
  /\ sup.pc = "set_sip"
  /\ shutdown_in_progress' = 1
  /\ sup' = [sup EXCEPT !.pc = "clear_running"]
  /\ UNCHANGED <<q, slots_available, items_available, mutex, now, running,
                 queue_initialized, prod, cons, histvars, envvars, anvars>>

\* an initiate_shutdown that goes to queue_shutdown with running still set
SupClearRunningSkip ==
  /\ sup.pc = "clear_running"
  /\ running' = running
  /\ sup' = [sup EXCEPT !.pc = "qsd_flag"]
  /\ UNCHANGED <<q, slots_available, items_available, mutex, now,
                 shutdown_in_progress, queue_initialized, prod, cons,
                 histvars, envvars, anvars>>

\* initiate_shutdown: running = 0;
SupClearRunning ==
  /\ sup.pc = "clear_running"
  /\ running' = 0
  /\ sup' = [sup EXCEPT !.pc = "qsd_flag"]
  /\ UNCHANGED <<q, slots_available, items_available, mutex, now,
                 shutdown_in_progress, queue_initialized, prod, cons,
                 histvars, envvars, anvars>>

\* initiate_shutdown: if (queue_initialized) queue_shutdown: q->shutdown = 1;
SupQsdFlag ==
  /\ sup.pc = "qsd_flag"
  /\ IF queue_initialized = 1
     THEN /\ q' = queue_shutdown_flag(q)
          /\ sup' = [sup EXCEPT !.pc = "qsd_post"]
          /\ shutdown_calls' = shutdown_calls + 1
     ELSE /\ q' = q
          /\ sup' = [sup EXCEPT !.pc = AfterShutdown, !.i = 0]
          /\ shutdown_calls' = shutdown_calls
  /\ UNCHANGED <<slots_available, items_available, mutex, now, flagvars,
                 prod, cons, enq_count, stored, returned, dup_return, envvars, anvars>>

\* queue_shutdown: the loop of sem_post on both semaphores
SupQsdPost ==
  /\ sup.pc = "qsd_post"
  /\ slots_available' = queue_shutdown_post(slots_available)
  /\ items_available' = queue_shutdown_post(items_available)
  /\ sup' = [sup EXCEPT !.pc = AfterShutdown, !.i = 0]
  /\ UNCHANGED <<q, mutex, now, flagvars, prod, cons, histvars, envvars, anvars>>

\* a join loop that runs over every producer asked for, created or not
SupJoinProducerAll ==
  /\ sup.pc = "join_producers"
  /\ IF sup.i < NumProducers
     THEN /\ prod[sup.i + 1].pc \in {"idle", "done"}
          /\ sup' = [sup EXCEPT !.i = sup.i + 1,
                                !.joined = sup.joined \cup {ProducerThread(sup.i + 1)}]
     ELSE sup' = [sup EXCEPT !.pc = "join_consumers", !.i = 0]
  /\ UNCHANGED <<q, slots_available, items_available, mutex, now, flagvars,
                 prod, cons, histvars, envvars, anvars>>

\* wait_for_threads: pthread_join(producer_threads[i]) for i < num_producers_created
SupJoinProducer ==
  /\ sup.pc = "join_producers"
  /\ IF sup.i < sup.num_producers_created
     THEN /\ prod[sup.i + 1].pc = "done"
          /\ sup' = [sup EXCEPT !.i = sup.i + 1,
                                !.joined = sup.joined \cup {ProducerThread(sup.i + 1)}]
     ELSE sup' = [sup EXCEPT !.pc = "join_consumers", !.i = 0]
  /\ UNCHANGED <<q, slots_available, items_available, mutex, now, flagvars,
                 prod, cons, histvars, envvars, anvars>>

\* wait_for_threads: pthread_join(consumer_threads[i]) for i < num_consumers_created
SupJoinConsumer ==
  /\ sup.pc = "join_consumers"
  /\ IF sup.i < sup.num_consumers_created
     THEN /\ cons[sup.i + 1].pc = "done"
          /\ sup' = [sup EXCEPT !.i = sup.i + 1,
                                !.joined = sup.joined \cup {ConsumerThread(sup.i + 1)}]
     ELSE sup' = [sup EXCEPT !.pc = IF sup.create_failed THEN "cleanup" ELSE "summary",
                             !.i = 0]
  /\ UNCHANGED <<q, slots_available, items_available, mutex, now, flagvars,
                 prod, cons, histvars, envvars, anvars>>

\* print_thread_summary (cli.c): the balance check of the report
balance_check(total_produced, total_consumed, items_in_queue) ==
  IF total_produced = total_consumed + items_in_queue THEN "PASS" ELSE "FAIL"

SupSummary ==
  /\ sup.pc = "summary"
  /\ sup' = [sup EXCEPT !.pc = "cleanup",
               !.balance = balance_check(SumProduced(sup.num_producers_created),
                                         SumConsumed(sup.num_consumers_created),
                                         q.count)]
  /\ UNCHANGED <<q, slots_available, items_available, mutex, now, flagvars,
                 prod, cons, histvars, envvars, anvars>>

\* queue_destroy: pthread_mutex_destroy, sem_destroy, sem_destroy
queue_destroy(m) == DestroyedMutex

\* cleanup_resources: if (analytics_initialized) analytics_destroy(&analytics)
\* (pthread_mutex_destroy); if (queue_initialized) queue_destroy(&shared_queue);
\* queue_initialized keeps its value
SupCleanup ==
  /\ sup.pc = "cleanup"
  /\ mutex' = IF queue_initialized = 1 THEN queue_destroy(mutex) ELSE mutex
  /\ analytics' = IF analytics.attached
                  THEN [analytics EXCEPT !.mutex = DestroyedMutex]
                  ELSE analytics
  /\ sup' = [sup EXCEPT !.pc = "returning"]
  /\ UNCHANGED <<q, slots_available, items_available, now, flagvars,
                 prod, cons, histvars, envvars, sampler, mono>>

\* return from main: the process ends and takes no more signals
SupReturn ==
  /\ sup.pc = "returning"
  /\ sup' = [sup EXCEPT !.pc = "exit"]
  /\ UNCHANGED <<q, slots_available, items_available, mutex, now, flagvars,
                 prod, cons, histvars, envvars, anvars>>

SupStep ==
  \/ SupCreateProducer \/ SupCreateConsumer \/ SupWait \/ SupCheckSip
  \/ SupSetSip \/ SupClearRunning \/ SupQsdFlag \/ SupQsdPost
  \/ SupJoinProducer \/ SupJoinConsumer \/ SupSummary \/ SupCleanup
  \/ SupReturn

\* analytics_init returns 0, or -1 (pthread_mutex_init failed): on failure
\* cleanup_resources(); return EXIT_FAILURE;
SupAnalyticsInit ==
  /\ sup.pc = "analytics_init"
  /\ \E result \in {0, -1} :
       sup' = [sup EXCEPT !.pc = IF result = 0 THEN "create_producers" ELSE "cleanup"]
  /\ UNCHANGED <<q, slots_available, items_available, mutex, now, flagvars,
                 prod, cons, histvars, envvars, anvars>>

\* create_producers: producer_init_args or pthread_create fails for producer
\* i + 1, return -1; main: initiate_shutdown(); finalize_shutdown();
\* wait_for_threads(); cleanup_resources(); return EXIT_FAILURE;
SupCreateProducerFail ==
  /\ sup.pc = "create_producers"
  /\ sup.i < NumProducers
  /\ sup' = [sup EXCEPT !.pc = "check_sip", !.i = 0, !.create_failed = TRUE]
  /\ UNCHANGED <<q, slots_available, items_available, mutex, now, flagvars,
                 prod, cons, histvars, envvars, anvars>>

\* create_consumers: consumer_init_args or pthread_create fails for consumer
\* i + 1, return -1; main goes the same way
SupCreateConsumerFail ==
  /\ sup.pc = "create_consumers"
  /\ sup.i < NumConsumers
  /\ sup' = [sup EXCEPT !.pc = "check_sip", !.i = 0, !.create_failed = TRUE]
  /\ UNCHANGED <<q, slots_available, items_available, mutex, now, flagvars,
                 prod, cons, histvars, envvars, anvars>>

SupFailStep == SupAnalyticsInit \/ SupCreateProducerFail \/ SupCreateConsumerFail

(* ---------------- signal_handler (main.c) ---------------- *)
\* threads that exist and can take a signal
LiveThreads ==
  {MainThread}
  \cup {ProducerThread(i) : i \in {x \in Producers : prod[x].pc \notin {"idle", "done"}}}
  \cup {ConsumerThread(j) : j \in {x \in Consumers : cons[x].pc \notin {"idle", "done"}}}

\* queue_shutdown in one piece, as the handler runs it
queue_shutdown(qq) == queue_shutdown_flag(qq)

\* does the loop of sem_post take effect? On semaphores that sem_destroy
\* has destroyed sem_post is undefined: it posts, or it fails
sem_post_outcomes(m) == IF m = DestroyedMutex THEN {TRUE, FALSE} ELSE {TRUE}

\* a handler that takes q->mutex around queue_shutdown: it runs when the
\* mutex is free, and on the thread that holds the mutex it waits for ever
SignalLocking(t) ==
  /\ signals < MaxSignals
  /\ sup.pc # "exit"
  /\ t \in LiveThreads
  /\ mutex \in {NoThread, DestroyedMutex, t}
  /\ signals' = signals + 1
  /\ IF shutdown_in_progress = 0
     THEN /\ shutdown_in_progress' = 1
          /\ running' = 0
          /\ IF queue_initialized = 1 /\ mutex # t
             THEN /\ q' = queue_shutdown(q)
                  /\ \E posted \in sem_post_outcomes(mutex) :
                       /\ slots_available' = IF posted
                                             THEN queue_shutdown_post(slots_available)
                                             ELSE slots_available
                       /\ items_available' = IF posted
                                             THEN queue_shutdown_post(items_available)
                                             ELSE items_available
                  /\ shutdown_calls' = shutdown_calls + 1
             ELSE UNCHANGED <<q, slots_available, items_available, shutdown_calls>>
     ELSE UNCHANGED <<shutdown_in_progress, running, q, slots_available,
                      items_available, shutdown_calls>>
  /\ prod' = [i \in Producers |->
               IF t = ProducerThread(i) /\ prod[i].pc = "enq_wait"
               THEN [prod[i] EXCEPT !.eintr = TRUE]
               ELSE IF t = ProducerThread(i) /\ mutex = t
                       /\ shutdown_in_progress = 0 /\ queue_initialized = 1
               THEN [prod[i] EXCEPT !.sig_locked = TRUE, !.pc = "deadlock"]
               ELSE prod[i]]
  /\ cons' = [j \in Consumers |->
               IF t = ConsumerThread(j) /\ cons[j].pc = "deq_wait"
               THEN [cons[j] EXCEPT !.eintr = TRUE]
               ELSE IF t = ConsumerThread(j) /\ mutex = t
                       /\ shutdown_in_progress = 0 /\ queue_initialized = 1
               THEN [cons[j] EXCEPT !.sig_locked = TRUE, !.pc = "deadlock"]
               ELSE cons[j]]
  /\ UNCHANGED <<mutex, now, queue_initialized, sup, enq_count, stored, returned,
                 dup_return, aging, prios, rng, seq, anvars>>

\* SIGINT / SIGTERM is delivered to thread t, which runs signal_handler:
\* if (!shutdown_in_progress) { shutdown_in_progress = 1; running = 0;
\*   if (queue_initialized) queue_shutdown(&shared_queue); write(...); }
\* A sem_wait that the handler interrupted returns -1 with EINTR.
Signal(t) ==
  /\ signals < MaxSignals
  /\ sup.pc # "exit"
  /\ t \in LiveThreads
  /\ signals' = signals + 1
  /\ IF shutdown_in_progress = 0
     THEN /\ shutdown_in_progress' = 1
          /\ running' = 0
          /\ IF queue_initialized = 1
             THEN /\ q' = queue_shutdown(q)
                  /\ \E posted \in sem_post_outcomes(mutex) :
                       /\ slots_available' = IF posted
                                             THEN queue_shutdown_post(slots_available)
                                             ELSE slots_available
                       /\ items_available' = IF posted
                                             THEN queue_shutdown_post(items_available)
                                             ELSE items_available
                  /\ shutdown_calls' = shutdown_calls + 1
             ELSE UNCHANGED <<q, slots_available, items_available, shutdown_calls>>
     ELSE UNCHANGED <<shutdown_in_progress, running, q, slots_available,
                      items_available, shutdown_calls>>
  /\ prod' = [i \in Producers |->
               IF t = ProducerThread(i) /\ prod[i].pc = "enq_wait"
               THEN [prod[i] EXCEPT !.eintr = TRUE]
               ELSE IF t = ProducerThread(i) /\ mutex = t
               THEN [prod[i] EXCEPT !.sig_locked = TRUE] ELSE prod[i]]
  /\ cons' = [j \in Consumers |->
               IF t = ConsumerThread(j) /\ cons[j].pc = "deq_wait"
               THEN [cons[j] EXCEPT !.eintr = TRUE]
               ELSE IF t = ConsumerThread(j) /\ mutex = t
               THEN [cons[j] EXCEPT !.sig_locked = TRUE] ELSE cons[j]]
  /\ UNCHANGED <<mutex, now, queue_initialized, sup, enq_count, stored, returned,
                 dup_return, aging, prios, rng, seq, anvars>>

(* ---------------- analytics (analytics.c) ---------------- *)
SamplerThread == <<"sampler", 0>>

QueueSample(timestamp, occupancy, capacity) ==
  [timestamp |-> timestamp, occupancy |-> occupancy, capacity |-> capacity]

\* analytics_init: memset(analytics, 0, sizeof(Analytics)); queue_capacity =
\* queue_get_capacity(queue); queue_min_occupancy = queue_capacity;
\* pthread_mutex_init. queue_samples holds the entries below num_samples.
\* attached says whether the specification follows the calls into
\* analytics.c (args->analytics); the specifications of the queue alone leave
\* them out.
analytics_init(capacity, attached) ==
  [attached |-> attached, mutex |-> NoThread, queue_capacity |-> capacity,
   num_samples |-> 0, queue_samples |-> <<>>, queue_occupancy_sum |-> 0,
   queue_max_occupancy |-> 0, queue_min_occupancy |-> capacity,
   queue_full_count |-> 0, queue_empty_count |-> 0,
   total_produced |-> 0, total_consumed |-> 0,
   total_producer_blocks |-> 0, total_consumer_blocks |-> 0,
   sampling_active |-> 0]

AnalyticsOff == analytics_init(0, FALSE)

\* rounds is a history field: the passes of the loop body that the
\* specification has followed
SamplerInit == [pc |-> "idle", occupancy |-> 0, rounds |-> 0]

InitAnalyticsOff ==
  /\ analytics = AnalyticsOff
  /\ sampler = SamplerInit
  /\ mono = 0

(* ---------------- clock ---------------- *)
\* CLOCK_REALTIME advances by one millisecond (it is not set back, and
\* clock_gettime does not fail)
Tick ==
  /\ now < MaxClock
  /\ now' = now + 1
  /\ UNCHANGED <<q, slots_available, items_available, mutex, flagvars,
                 prod, cons, sup, histvars, envvars, anvars>>

(* ---------------- the program ---------------- *)
SeqNone == [phase |-> "none"]

\* the state after queue_init(capacity), before the workers are created
InitQueue(capacity) ==
  /\ q = queue_init(capacity)
  /\ slots_available = capacity
  /\ items_available = 0
  /\ mutex = NoThread

InitHistory ==
  /\ enq_count = 0
  /\ stored = {}
  /\ returned = {}
  /\ dup_return = FALSE
  /\ shutdown_calls = 0

\* main after setup_signal_handlers, queue_init and analytics_init
Init ==
  /\ \E capacity \in MIN_QUEUE_SIZE..Capacity : InitQueue(capacity)
  /\ aging = AgingIntervalMs
  /\ prios = OnePriority
  /\ now = 0
  /\ running = 1
  /\ shutdown_in_progress = 0
  /\ queue_initialized = 1
  /\ prod = [i \in Producers |-> ProducerInit]
  /\ cons = [j \in Consumers |-> ConsumerInit]
  /\ sup = SupInit
  /\ signals = 0
  /\ rng = 0
  /\ InitAnalyticsOff
  /\ InitHistory
  /\ seq = SeqNone

Next ==
  \/ \E i \in Producers : ProducerStep(i)
  \/ \E j \in Consumers : ConsumerStep(j)
  \/ SupStep
  \/ \E t \in LiveThreads : Signal(t)

Spec == Init /\ [][Next]_vars

\* Every thread is scheduled again and again: a step of main or of a worker
\* that stays possible is eventually taken. Signals may or may not arrive.
FairSpec ==
  /\ Spec
  /\ WF_vars(SupStep)
  /\ \A i \in Producers : WF_vars(ProducerStep(i))
  /\ \A j \in Consumers : WF_vars(ConsumerStep(j))

(* ---------------- C1 ---------------- *)
AllJoined == sup.pc \in {"summary", "cleanup", "exit"}

\* C1: once main has joined every worker (on the timeout path or the signal
\* path), the sum of the producers' messages_produced equals the sum of the
\* consumers' messages_consumed plus the queue's count.
C1_Conservation ==
  AllJoined =>
    SumProduced(NumProducers) = SumConsumed(NumConsumers) + q.count

\* a signal-path run that ended with messages produced, consumed and left over
C1_Witness ==
  /\ sup.pc = "exit"
  /\ signals > 0
  /\ sup.balance = "PASS"
  /\ SumConsumed(NumConsumers) > 0
  /\ q.count > 0

(* ---------------- C2 ---------------- *)
AllWorkersDone ==
  /\ \A i \in Producers : prod[i].pc = "done"
  /\ \A j \in Consumers : cons[j].pc = "done"

C3_CountInRange == 0 <= q.count /\ q.count <= q.capacity

\* a full queue after the shutdown posts, with more slot tokens than slots
\* and a producer turned away
C3_Witness ==
  /\ q.shutdown = 1
  /\ slots_available > q.capacity
  /\ items_available > q.capacity
  /\ q.count = q.capacity
  /\ \E i \in Producers : prod[i].pc = "done" /\ prod[i].messages_produced = 0

(* ---------------- C10 ---------------- *)
\* C10: a queue_enqueue_safe (queue_dequeue_safe) call that is about to return 0
\* has written was_blocked = 1 exactly when its first sem_trywait failed,
\* whatever the other threads did in between.
C10_BlockSignal ==
  /\ \A i \in Producers :
       prod[i].pc = "enq_post" => (prod[i].was_blocked = 1 <=> prod[i].try_failed)
  /\ \A j \in Consumers :
       cons[j].pc = "deq_post" => (cons[j].was_blocked = 1 <=> cons[j].try_failed)

\* a producer that parked is about to return success with was_blocked = 1,
\* after a consumer that did not park returned success with was_blocked = 0
C10_Witness ==
  /\ \E i \in Producers :
       prod[i].pc = "enq_post" /\ prod[i].try_failed /\ prod[i].was_blocked = 1
  /\ \E j \in Consumers :
       cons[j].messages_consumed > 0 /\ cons[j].times_blocked = 0

(* ---------------- the workers on a live queue ---------------- *)
\* All workers running, no stop request: the queue calls under every
\* interleaving, with messages of several priorities and a running clock.
InitPrio ==
  /\ \E capacity \in MIN_QUEUE_SIZE..Capacity : InitQueue(capacity)
  /\ aging = AgingIntervalMs
  /\ prios = Priorities
  /\ now = 0
  /\ running = 1
  /\ shutdown_in_progress = 0
  /\ queue_initialized = 1
  /\ prod = [i \in Producers |-> [ProducerInit EXCEPT !.pc = "p_loop"]]
  /\ cons = [j \in Consumers |-> [ConsumerInit EXCEPT !.pc = "c_loop"]]
  /\ sup = [SupInit EXCEPT !.pc = "wait_loop",
                           !.num_producers_created = NumProducers,
                           !.num_consumers_created = NumConsumers]
  /\ signals = 0
  /\ rng = 0
  /\ InitAnalyticsOff
  /\ InitHistory
  /\ seq = SeqNone

NextPrio ==
  \/ \E i \in Producers :
       \/ ProducerLoop(i) \/ EnqEntry(i) \/ EnqTry(i) \/ EnqWait(i)
       \/ EnqRecheck(i) \/ EnqLock(i) \/ EnqUnlock(i) \/ EnqPost(i)
  \/ \E j \in Consumers :
       \/ ConsumerLoop(j) \/ DeqEntry(j) \/ DeqTry(j) \/ DeqWait(j)
       \/ DeqRecheck(j) \/ DeqLock(j) \/ DeqUnlock(j) \/ DeqPost(j)
  \/ Tick

SpecPrio == InitPrio /\ [][NextPrio]_vars

(* ---------------- C4 ---------------- *)
\* C4: under every interleaving of enqueue and dequeue calls, a dequeue
\* returns only messages whose enqueue has left its critical section, never
\* one message twice, each enqueue stores one message, and whenever the mutex
\* is free the live window holds exactly the messages stored and not yet
\* returned, count of them.
C4_NoLossNoDup ==
  /\ dup_return = FALSE
  /\ returned \subseteq stored
  /\ mutex = NoThread =>
       /\ WindowUids(q) = stored \ returned
       /\ Cardinality(WindowUids(q)) = q.count
       /\ Cardinality(stored) = enq_count

\* the mutex is free after a dequeue took the second message written and
\* left the first one in the window
C4_Witness ==
  /\ mutex = NoThread
  /\ q.count = 1
  /\ q.buffer[q.front].seq = 1
  /\ Cardinality(returned) = 1
  /\ Cardinality(stored) = 2

(* ---------------- C5 ---------------- *)
\* consumer j runs internal_dequeue successfully in this step
DequeueScan(j) ==
  /\ cons[j].pc = "deq_lock"
  /\ cons'[j].pc = "deq_unlock"
  /\ cons'[j].result = 0

\* C5: the message a successful dequeue returns is one of the window at the
\* scan, and its effective priority at the time of the scan is at least the
\* effective priority of every message of that window.
C5_HighestEffective ==
  [][\A j \in Consumers :
       DequeueScan(j) =>
         /\ cons'[j].msg.uid \in WindowUids(q)
         /\ \A k \in 1..q.count :
              effective_priority(cons'[j].msg, now, aging)
                >= effective_priority(Window(q)[k], now, aging)]_vars

\* a consumer has just taken a priority-8 message that aged to 9, leaving a
\* priority-9 message in the buffer (count is not yet decremented)
C5_Witness ==
  \E j \in Consumers :
    /\ cons[j].pc = "deq_unlock"
    /\ cons[j].result = 0
    /\ q.count = 2
    /\ cons[j].msg.priority = 8
    /\ q.buffer[q.front].priority = 9
    /\ now > cons[j].msg.timestamp

(* ---------------- one thread using the queue ---------------- *)
\* One thread calls queue_enqueue_safe and queue_dequeue_safe one after the
\* other (as test_queue_basic does) while the clock runs; it never makes a
\* call that would park it. seq.inn holds the messages put in since the queue
\* was last empty, seq.out those taken out since the last enqueue, seq.clean
\* says that no dequeue came between the enqueues of seq.inn.
InitSeq ==
  /\ \E capacity \in MIN_QUEUE_SIZE..SeqCapacity : InitQueue(capacity)
  /\ aging \in {0, AgingIntervalMs}
  /\ prios = SeqPriorities
  /\ now = 0
  /\ running = 1
  /\ shutdown_in_progress = 0
  /\ queue_initialized = 1
  /\ prod = [i \in Producers |-> ProducerInit]
  /\ cons = [j \in Consumers |-> ConsumerInit]
  /\ sup = SupInit
  /\ signals = 0
  /\ rng = 0
  /\ InitAnalyticsOff
  /\ InitHistory
  /\ seq = [inn |-> <<>>, out |-> <<>>, clean |-> TRUE]

\* msg = message_create(data, priority, id); queue_enqueue_safe(&q, msg)
SeqEnqueue ==
  /\ enq_count < SeqMaxEnq
  /\ sem_can_take(slots_available)
  /\ \E data \in DataValues, priority \in prios :
       LET m == [message_create(data, priority, (enq_count % 3) + 1, enq_count + 1)
                   EXCEPT !.seq = enq_count + 1]
       IN /\ q' = internal_enqueue(q, m)
          /\ stored' = stored \cup {m.uid}
          /\ seq' = IF q.count = 0
                    THEN [inn |-> <<m>>, out |-> <<>>, clean |-> TRUE]
                    ELSE [inn |-> Append(seq.inn, m), out |-> <<>>,
                          clean |-> seq.clean /\ seq.out = <<>>]
  /\ enq_count' = enq_count + 1
  /\ slots_available' = slots_available - 1
  /\ items_available' = items_available + 1
  /\ UNCHANGED <<mutex, now, flagvars, prod, cons, sup, returned, dup_return,
                 shutdown_calls, aging, prios, signals, rng, anvars>>

\* queue_dequeue_safe(&q, &msg)
SeqDequeue ==
  /\ sem_can_take(items_available)
  /\ LET m == internal_dequeue_msg(q, now, aging)
     IN /\ q' = internal_dequeue(q, now, aging)
        /\ returned' = returned \cup {m.uid}
        /\ dup_return' = (dup_return \/ m.uid \in returned)
        /\ seq' = [seq EXCEPT !.out = Append(seq.out, m)]
  /\ items_available' = items_available - 1
  /\ slots_available' = slots_available + 1
  /\ UNCHANGED <<mutex, now, flagvars, prod, cons, sup, enq_count, stored,
                 shutdown_calls, aging, prios, signals, rng, anvars>>

NextSeq == SeqEnqueue \/ SeqDequeue \/ Tick

SpecSeq == InitSeq /\ [][NextSeq]_vars

(* ---------------- C6 ---------------- *)
\* this step is a dequeue
SeqDequeueStep == Len(seq'.out) = Len(seq.out) + 1

SamePriority(msgs, priority) == \A k \in 1..Len(msgs) : msgs[k].priority = priority

\* C6: no message of the window with the same effective priority as the one
\* dequeue returns has a smaller timestamp, or the same timestamp and an
\* earlier enqueue; and with aging off, three priority-5 messages put into an
\* empty queue in the order A, B, C and taken out come out in the order A, B, C.
C6_TieBreak ==
  [][SeqDequeueStep =>
       LET c == seq'.out[Len(seq'.out)]
       IN /\ \A k \in 1..q.count :
               LET m == Window(q)[k]
               IN effective_priority(m, now, aging) = effective_priority(c, now, aging)
                    => \/ c.timestamp < m.timestamp
                       \/ c.timestamp = m.timestamp /\ c.seq <= m.seq
          /\ ( /\ aging = 0
               /\ seq.clean
               /\ Len(seq.inn) = 3
               /\ Len(seq'.out) = 3
               /\ SamePriority(seq.inn, 5) )
             => \A k \in 1..3 : /\ seq'.out[k].producer_id = seq.inn[k].producer_id
                                /\ seq'.out[k].uid = seq.inn[k].uid]_vars

\* aging off: three priority-5 messages with the same timestamp, put in by
\* A, B, C, have come out in that order
C6_Witness ==
  /\ aging = 0
  /\ seq.clean
  /\ Len(seq.inn) = 3
  /\ Len(seq.out) = 3
  /\ SamePriority(seq.inn, 5)
  /\ seq.inn[1].timestamp = seq.inn[3].timestamp
  /\ \A k \in 1..3 : seq.out[k].producer_id = k

(* ---------------- C7 ---------------- *)
NonIncreasing(msgs) ==
  \A k \in 1..(Len(msgs) - 1) : msgs[k].priority >= msgs[k + 1].priority

\* C7: with aging off, after k <= capacity messages were put into an empty
\* queue, the messages taken out with no enqueue in between are messages put
\* in, each once, in non-increasing order of priority.
C7_PriorityDominance ==
  (aging = 0 /\ seq.clean) =>
    /\ NonIncreasing(seq.out)
    /\ \A k \in 1..Len(seq.out) :
         /\ \E n \in 1..Len(seq.inn) : seq.inn[n] = seq.out[k]
         /\ \A n \in 1..Len(seq.out) : seq.out[n].uid = seq.out[k].uid => n = k

\* priorities 8, 5, 9 put into an empty queue whose front is not slot 0 and
\* taken out as 9, 8, 5
C7_Witness ==
  /\ aging = 0
  /\ seq.clean
  /\ Len(seq.inn) = 3
  /\ Len(seq.out) = 3
  /\ seq.inn[1].priority = 8 /\ seq.inn[2].priority = 5 /\ seq.inn[3].priority = 9
  /\ seq.out[1].priority = 9 /\ seq.out[2].priority = 8 /\ seq.out[3].priority = 5
  /\ enq_count > 3

(* ---------------- effective_priority on its own ---------------- *)
\* effective_priority applied to one message: every priority, sampled ages
\* (timestamp 0, clock = age) and sampled aging intervals.
InitAging ==
  /\ InitQueue(MIN_QUEUE_SIZE)
  /\ aging \in IntervalSamples
  /\ prios = PRIORITY_MIN..PRIORITY_MAX
  /\ now \in AgeSamples
  /\ running = 1
  /\ shutdown_in_progress = 0
  /\ queue_initialized = 1
  /\ prod = [i \in Producers |-> ProducerInit]
  /\ cons = [j \in Consumers |-> ConsumerInit]
  /\ sup = SupInit
  /\ signals = 0
  /\ rng = 0
  /\ InitAnalyticsOff
  /\ InitHistory
  /\ \E priority \in PRIORITY_MIN..PRIORITY_MAX :
       seq = [phase |-> "input", msg |-> Message(5, priority, 1, 0, 1), eff |-> 0]

\* eff = effective_priority(&msg, now_ms): any result the build can produce
AgingApply ==
  /\ seq.phase = "input"
  /\ \E eff \in effective_priority_outcomes(seq.msg, now, aging) :
       seq' = [seq EXCEPT !.phase = "done", !.eff = eff]
  /\ UNCHANGED <<q, slots_available, items_available, mutex, now, flagvars,
                 prod, cons, sup, histvars, aging, prios, signals, rng, anvars>>

NextAging == AgingApply

SpecAging == InitAging /\ [][NextAging]_vars

(* ---------------- C8 ---------------- *)
\* min(priority + floor(age / interval), 9), computed without the sum
CappedBoost(priority, age, interval) ==
  IF interval = 0 THEN priority
  ELSE IF age \div interval >= PRIORITY_MAX - priority THEN PRIORITY_MAX
  ELSE priority + age \div interval

\* C8: for every priority in 0..9 and every non-negative age the effective
\* priority is min(priority + floor(age / interval), 9), the priority itself
\* when the interval is 0; it lies in 0..9 and is never below the priority.
C8_EffectivePriority ==
  seq.phase = "done" =>
    LET age == now - seq.msg.timestamp
    IN /\ seq.eff = CappedBoost(seq.msg.priority, age, aging)
       /\ seq.eff \in PRIORITY_MIN..PRIORITY_MAX
       /\ seq.eff >= seq.msg.priority

\* C8, for the ages at which priority + boost fits an int: the formula of
\* the claim holds there (interval 100, priority 3: age 500 gives 8, age
\* 10000 gives 9).
C8_WithinInt ==
  (seq.phase = "done"
     /\ ~IntAddOverflows(seq.msg.priority, effective_boost(seq.msg, now, aging))) =>
    LET age == now - seq.msg.timestamp
    IN /\ seq.eff = CappedBoost(seq.msg.priority, age, aging)
       /\ seq.eff \in PRIORITY_MIN..PRIORITY_MAX
       /\ seq.eff >= seq.msg.priority
       /\ (aging = 100 /\ seq.msg.priority = 3 /\ age = 500) => seq.eff = 8
       /\ (aging = 100 /\ seq.msg.priority = 3 /\ age = 10000) => seq.eff = 9

(* ---------------- arrivals without end ---------------- *)
\* One thread's calls again, now for ever: messages of priority StarveLow and
\* PRIORITY_MAX keep arriving and keep being taken out while the clock runs.
\* One message is marked (uid 1) when it is put in; seq.marked follows it and
\* seq.bypassed says that another message was taken out while it waited.
\* The clock is kept finite: at StarveClock a tick leaves now where it is and
\* moves every timestamp one ms back instead (not below 0). Ages below
\* StarveClock are exact, and a message whose timestamp has reached 0 has an
\* age of at least StarveClock, at which every priority is boosted to 9 (as
\* long as priority + boost fits an int, see effective_priority_outcomes).
StarveClock == (PRIORITY_MAX - StarveLow) * AgingIntervalMs + 1

InitStarve ==
  /\ \E capacity \in MIN_QUEUE_SIZE..Capacity : InitQueue(capacity)
  /\ aging = AgingIntervalMs
  /\ prios = {StarveLow, PRIORITY_MAX}
  /\ now = 0
  /\ running = 1
  /\ shutdown_in_progress = 0
  /\ queue_initialized = 1
  /\ prod = [i \in Producers |-> ProducerInit]
  /\ cons = [j \in Consumers |-> ConsumerInit]
  /\ sup = SupInit
  /\ signals = 0
  /\ rng = 0
  /\ InitAnalyticsOff
  /\ InitHistory
  /\ seq = [marked |-> "none", bypassed |-> FALSE]

\* msg = message_create(data, priority, id); queue_enqueue_safe(&q, msg)
StarveEnqueue ==
  /\ sem_can_take(slots_available)
  /\ \E data \in DataValues, priority \in prios, mark \in BOOLEAN :
       /\ mark => seq.marked = "none"
       /\ q' = internal_enqueue(q, message_create(data, priority, 1, IF mark THEN 1 ELSE 0))
       /\ seq' = IF mark THEN [seq EXCEPT !.marked = "in"] ELSE seq
  /\ slots_available' = slots_available - 1
  /\ items_available' = items_available + 1
  /\ UNCHANGED <<mutex, now, flagvars, prod, cons, sup, histvars,
                 aging, prios, signals, rng, anvars>>

\* queue_dequeue_safe(&q, &msg)
StarveDequeue ==
  /\ sem_can_take(items_available)
  /\ q' = internal_dequeue(q, now, aging)
  /\ seq' = IF internal_dequeue_msg(q, now, aging).uid = 1
            THEN [seq EXCEPT !.marked = "out"]
            ELSE IF seq.marked = "in" THEN [seq EXCEPT !.bypassed = TRUE]
            ELSE seq
  /\ items_available' = items_available - 1
  /\ slots_available' = slots_available + 1
  /\ UNCHANGED <<mutex, now, flagvars, prod, cons, sup, histvars,
                 aging, prios, signals, rng, anvars>>

\* CLOCK_REALTIME advances by one millisecond
StarveTick ==
  /\ IF now < StarveClock
     THEN /\ now' = now + 1
          /\ q' = q
     ELSE /\ now' = now
          /\ q' = [q EXCEPT !.buffer =
                    [s \in DOMAIN q.buffer |->
                       [q.buffer[s] EXCEPT !.timestamp =
                          IF q.buffer[s].timestamp > 0
                          THEN q.buffer[s].timestamp - 1 ELSE 0]]]
  /\ UNCHANGED <<slots_available, items_available, mutex, flagvars,
                 prod, cons, sup, histvars, envvars, anvars>>

NextStarve == StarveEnqueue \/ StarveDequeue \/ StarveTick

\* time advances and the consumer keeps dequeuing
SpecStarve ==
  /\ InitStarve
  /\ [][NextStarve]_vars
  /\ WF_vars(StarveDequeue)
  /\ WF_vars(StarveTick)

(* ---------------- C9 ---------------- *)
\* C9: with aging enabled, while time advances and the consumer keeps
\* dequeuing, a stored message is eventually returned by a dequeue, whatever
\* its priority and however many higher-priority messages keep arriving.
C9_NoStarvation == (seq.marked = "in") ~> (seq.marked = "out")

\* the marked message, of priority StarveLow, was passed over by a dequeue
\* and has been returned since
C9_Witness ==
  /\ seq.marked = "out"
  /\ seq.bypassed
  /\ \E s \in DOMAIN q.buffer : q.buffer[s].uid = 1 /\ q.buffer[s].priority = StarveLow

(* ---------------- tokens in flight ---------------- *)
\* slot tokens in flight: a producer has acquired slots_available and not yet
\* incremented count, or a consumer has decremented count and not yet posted
\* slots_available
SlotTokensInFlight ==
  Cardinality({i \in Producers : prod[i].pc \in {"enq_recheck", "enq_lock", "enq_unlock"}})
  + Cardinality({j \in Consumers : cons[j].pc = "deq_post"})

\* item tokens in flight: a consumer has acquired items_available and not yet
\* decremented count, or a producer has incremented count and not yet posted
\* items_available
ItemTokensInFlight ==
  Cardinality({j \in Consumers : cons[j].pc \in {"deq_recheck", "deq_lock", "deq_unlock"}})
  + Cardinality({i \in Producers : prod[i].pc = "enq_post"})

(* ---------------- C11 ---------------- *)
\* producer i makes its acquire attempt (sem_trywait) in this step
EnqAttempt(i) == prod[i].pc = "enq_try" /\ prod'[i].pc # "enq_try"

\* consumer j makes its acquire attempt (sem_trywait) in this step
DeqAttempt(j) == cons[j].pc = "deq_try" /\ cons'[j].pc # "deq_try"

C12_EnqueueFailsUnderShutdown ==
  [][q.shutdown = 1 =>
       /\ q'.count <= q.count
       /\ enq_count' = enq_count
       /\ \A i \in Producers :
            prod'[i].messages_produced = prod[i].messages_produced]_vars

(* ---------------- C14 ---------------- *)
\* C14: before queue_shutdown is called, slots_available + count + slot
\* tokens in flight = capacity and items_available + item tokens in flight
\* = count.
C14_SemaphoreAccounting ==
  (q.shutdown = 0 /\ shutdown_calls = 0) =>
    /\ slots_available + q.count + SlotTokensInFlight = q.capacity
    /\ items_available + ItemTokensInFlight = q.count

\* before shutdown, a consumer has taken a message and not yet posted the
\* slot while a producer has stored a message and not yet posted the item
C14_Witness ==
  /\ q.shutdown = 0
  /\ shutdown_calls = 0
  /\ \E j \in Consumers : cons[j].pc = "deq_post"
  /\ \E i \in Producers : prod[i].pc = "enq_post"

(* ---------------- C20 ---------------- *)
\* C20: once the shutdown flag is set, no step of an enqueue, a dequeue or a
\* shutdown call clears it.
C20_FlagMonotonic == [][q.shutdown = 1 => q'.shutdown = 1]_vars

\* the flag is still set at the end of a run in which queue_shutdown ran
\* twice and a consumer took a message
C20_Witness ==
  /\ q.shutdown = 1
  /\ shutdown_calls = 2
  /\ sup.pc = "exit"
  /\ SumConsumed(NumConsumers) > 0

(* ---------------- C13 ---------------- *)
\* this step belongs to a second call of queue_shutdown: it enters the call,
\* or it is the loop of posts of a call entered as the second one
SecondShutdownStep ==
  \/ shutdown_calls >= 1 /\ shutdown_calls' = shutdown_calls + 1
  \/ shutdown_calls >= 2 /\ sup.pc = "qsd_post" /\ sup'.pc # "qsd_post"

\* C13: a second call of queue_shutdown, at whatever point after the first
\* (the timeout path's call after the signal handler's), leaves the flag,
\* the buffer, the indices and count as they are; after it every worker
\* still terminates, and the totals of the run still balance.
C13_IdempotentShutdown ==
  /\ [][SecondShutdownStep => q' = q]_vars
  /\ []((shutdown_calls >= 2 /\ AllJoined) =>
          SumProduced(NumProducers) = SumConsumed(NumConsumers) + q.count)
  /\ (shutdown_calls >= 2) ~> AllWorkersDone

\* a run in which queue_shutdown ran twice has ended with its balance
\* passing and a message left in the queue
C13_Witness ==
  /\ shutdown_calls = 2
  /\ sup.pc = "exit"
  /\ sup.balance = "PASS"
  /\ q.count > 0
  /\ SumProduced(NumProducers) > 0

(* ---------------- C17 ---------------- *)
\* C17: across the timeout path and the signal handler queue_shutdown is
\* entered exactly once per run: never a second time, and once by the time
\* the workers are joined.
C17_ShutdownOnce ==
  /\ shutdown_calls <= 1
  /\ AllJoined => shutdown_calls = 1

(* ---------------- the supervisor when set-up fails ---------------- *)
\* main from analytics_init on: analytics_init and the creation of any
\* worker may fail.
InitLife ==
  /\ \E capacity \in MIN_QUEUE_SIZE..Capacity : InitQueue(capacity)
  /\ aging = AgingIntervalMs
  /\ prios = OnePriority
  /\ now = 0
  /\ running = 1
  /\ shutdown_in_progress = 0
  /\ queue_initialized = 1
  /\ prod = [i \in Producers |-> ProducerInit]
  /\ cons = [j \in Consumers |-> ConsumerInit]
  /\ sup = [SupInit EXCEPT !.pc = "analytics_init"]
  /\ signals = 0
  /\ rng = 0
  /\ InitAnalyticsOff
  /\ InitHistory
  /\ seq = SeqNone

NextLife == Next \/ SupFailStep

SpecLife == InitLife /\ [][NextLife]_vars

\* main and every worker are scheduled again and again
FairSpecLife ==
  /\ SpecLife
  /\ WF_vars(SupStep \/ SupFailStep)
  /\ \A i \in Producers : WF_vars(ProducerStep(i))
  /\ \A j \in Consumers : WF_vars(ConsumerStep(j))

QueueDestroyed == mutex = DestroyedMutex

\* the workers pthread_create returned 0 for
CreatedThreads ==
  {ProducerThread(i) : i \in 1..sup.num_producers_created}
  \cup {ConsumerThread(j) : j \in 1..sup.num_consumers_created}

\* no worker is running: each was never created or has returned
NoWorkerRunning ==
  /\ \A i \in Producers : prod[i].pc \in {"idle", "done"}
  /\ \A j \in Consumers : cons[j].pc \in {"idle", "done"}

(* ---------------- C18 ---------------- *)
\* C18: when the creation of a worker fails, main requests shutdown, joins
\* the workers that were created and no other thread, and destroys the queue
\* only after that; and it does get there (every created worker terminates).
C18_JoinOnSpawnFailure ==
  /\ [](sup.joined \subseteq CreatedThreads)
  /\ []((sup.create_failed /\ sup.pc \in {"join_producers", "join_consumers", "cleanup"})
          => (shutdown_in_progress = 1 /\ running = 0 /\ shutdown_calls >= 1))
  /\ []((sup.create_failed /\ QueueDestroyed)
          => (sup.joined = CreatedThreads /\ NoWorkerRunning
              /\ Cardinality(sup.joined)
                   = sup.num_producers_created + sup.num_consumers_created))
  /\ sup.create_failed ~> QueueDestroyed

\* the creation of the second producer failed: the first producer, which had
\* started an enqueue, was joined, no other thread was, and the queue is destroyed
C18_Witness ==
  /\ sup.create_failed
  /\ QueueDestroyed
  /\ sup.num_producers_created = 1
  /\ sup.num_consumers_created = 0
  /\ sup.joined = {ProducerThread(1)}
  /\ prod[1].pc = "done"
  /\ prod[1].messages_produced > 0

(* ---------------- C19 ---------------- *)
\* C19: on every exit path the queue is destroyed only when no worker is
\* running and every created worker has been joined, and nothing operates on
\* the destroyed queue: its flag, buffer, count and semaphores stay as they are.
C19_DestroyLast ==
  /\ [](QueueDestroyed => (NoWorkerRunning /\ sup.joined = CreatedThreads))
  /\ [][QueueDestroyed =>
          UNCHANGED <<q, slots_available, items_available, shutdown_calls>>]_vars

\* C19, its first half: the queue is destroyed only when no worker is
\* running and every created worker has been joined.
C19_JoinedBeforeDestroy ==
  QueueDestroyed => (NoWorkerRunning /\ sup.joined = CreatedThreads)

(* ---------------- queue_init on its own ---------------- *)
\* queue_init(&q, capacity) applied to a Queue whose mutex and semaphores are
\* not initialised and whose fields hold whatever was there before, for the
\* capacities from MIN_QUEUE_SIZE - InitMargin to MAX_QUEUE_SIZE + InitMargin.
InitCapacities == (MIN_QUEUE_SIZE - InitMargin)..(MAX_QUEUE_SIZE + InitMargin)

StaleQueues ==
  {[queue_init(c) EXCEPT !.count = n, !.front = n, !.shutdown = sd] :
     c \in MIN_QUEUE_SIZE..Capacity, n \in 0..1, sd \in 0..1}

InitInit ==
  /\ q \in StaleQueues
  /\ slots_available = SemUninit
  /\ items_available = SemUninit
  /\ mutex = UninitMutex
  /\ aging = AgingIntervalMs
  /\ prios = OnePriority
  /\ now = 0
  /\ running = 1
  /\ shutdown_in_progress = 0
  /\ queue_initialized = 0
  /\ prod = [i \in Producers |-> ProducerInit]
  /\ cons = [j \in Consumers |-> ConsumerInit]
  /\ sup = [SupInit EXCEPT !.pc = "queue_init"]
  /\ signals = 0
  /\ rng = 0
  /\ InitAnalyticsOff
  /\ InitHistory
  /\ \E capacity \in InitCapacities :
       seq = [phase |-> "input", capacity |-> capacity, result |-> 0, before |-> q]

\* result = queue_init(&q, capacity)
QueueInitCall ==
  /\ seq.phase = "input"
  /\ LET result == queue_init_result(seq.capacity)
     IN /\ seq' = [seq EXCEPT !.phase = "done", !.result = result]
        /\ IF result = 0
           THEN /\ q' = queue_init(seq.capacity)
                /\ mutex' = NoThread
                /\ slots_available' = seq.capacity
                /\ items_available' = 0
           ELSE UNCHANGED <<q, mutex, slots_available, items_available>>
  /\ UNCHANGED <<now, flagvars, prod, cons, sup, histvars, aging, prios,
                 signals, rng, anvars>>

NextInit == QueueInitCall

SpecInit == InitInit /\ [][NextInit]_vars

rand_next(state) == (5 * state + 3) % 16

\* random_range(min, max) on the value r that rand() returned
random_range(min, max, r) ==
  LET lo == IF min > max THEN max ELSE min
      hi == IF min > max THEN min ELSE max
  IN lo + (r % (hi - lo + 1))

\* producer_thread, one turn of the loop with its calls of random_range: the
\* sleep time that ends the turn before (when a message was produced), then
\* while (*(args->running)) { data, priority, message_create, was_blocked = 0
SeedProducerLoop(i) ==
  /\ prod[i].pc = "p_loop"
  /\ IF running = 0
     THEN /\ prod' = [prod EXCEPT ![i].pc = "done"]
          /\ rng' = rng
     ELSE /\ prod[i].messages_produced < MaxOps
          /\ LET r0 == IF prod[i].messages_produced > 0 THEN rand_next(rng) ELSE rng
                 r1 == rand_next(r0)
                 r2 == rand_next(r1)
                 data == random_range(DATA_RANGE_MIN, DATA_RANGE_MAX, r1)
                 priority == random_range(PRIORITY_MIN, PRIORITY_MAX, r2)
             IN /\ prod' = [prod EXCEPT
                     ![i].pc = "enq_entry",
                     ![i].msg = message_create(data, priority, i,
                                  (i - 1) * MaxOps + prod[i].messages_produced + 1),
                     ![i].was_blocked = 0]
                /\ rng' = r2
  /\ UNCHANGED <<q, slots_available, items_available, mutex, now, flagvars,
                 cons, sup, histvars, aging, prios, signals, seq, anvars>>

\* consumer_thread, one turn of the loop: the sleep time that ends the turn
\* before (when a message was consumed), then while (*(args->running)) {
\* was_blocked = 0
SeedConsumerLoop(j) ==
  /\ cons[j].pc = "c_loop"
  /\ IF running = 0
     THEN /\ cons' = [cons EXCEPT ![j].pc = "done"]
          /\ rng' = rng
     ELSE /\ cons' = [cons EXCEPT ![j].pc = "deq_entry", ![j].was_blocked = 0]
          /\ rng' = IF cons[j].messages_consumed > 0 THEN rand_next(rng) ELSE rng
  /\ UNCHANGED <<q, slots_available, items_available, mutex, now, flagvars,
                 prod, sup, histvars, aging, prios, signals, seq, anvars>>

\* main after random_init_seed(seed), queue_init and analytics_init, in the
\* first of two runs with the same parameters
InitSeed ==
  /\ \E capacity \in MIN_QUEUE_SIZE..Capacity : InitQueue(capacity)
  /\ aging = AgingIntervalMs
  /\ prios = PRIORITY_MIN..PRIORITY_MAX
  /\ now = 0
  /\ running = 1
  /\ shutdown_in_progress = 0
  /\ queue_initialized = 1
  /\ prod = [i \in Producers |-> ProducerInit]
  /\ cons = [j \in Consumers |-> ConsumerInit]
  /\ sup = SupInit
  /\ signals = 0
  /\ rng = Seed
  /\ InitAnalyticsOff
  /\ InitHistory
  /\ seq = [run |-> 1, first |-> <<0, 0>>]

\* the program is run again with the same seed and the same parameters
\* (test_bench.sh, section 9); seq.first keeps the totals of the first run
SeedRerun ==
  /\ sup.pc = "exit"
  /\ seq.run = 1
  /\ seq' = [run |-> 2,
             first |-> <<SumProduced(NumProducers), SumConsumed(NumConsumers)>>]
  /\ q' = queue_init(q.capacity)
  /\ slots_available' = q.capacity
  /\ items_available' = 0
  /\ mutex' = NoThread
  /\ running' = 1
  /\ shutdown_in_progress' = 0
  /\ queue_initialized' = 1
  /\ prod' = [i \in Producers |-> ProducerInit]
  /\ cons' = [j \in Consumers |-> ConsumerInit]
  /\ sup' = SupInit
  /\ rng' = Seed
  /\ enq_count' = 0
  /\ stored' = {}
  /\ returned' = {}
  /\ dup_return' = FALSE
  /\ shutdown_calls' = 0
  /\ UNCHANGED <<now, aging, prios, signals, anvars>>

\* runs that end by timeout: no signal is sent
NextSeed ==
  \/ \E i \in Producers :
       \/ SeedProducerLoop(i) \/ EnqEntry(i) \/ EnqTry(i) \/ EnqWait(i)
       \/ EnqRecheck(i) \/ EnqLock(i) \/ EnqUnlock(i) \/ EnqPost(i)
  \/ \E j \in Consumers :
       \/ SeedConsumerLoop(j) \/ DeqEntry(j) \/ DeqTry(j) \/ DeqWait(j)
       \/ DeqRecheck(j) \/ DeqLock(j) \/ DeqUnlock(j) \/ DeqPost(j)
  \/ SupStep
  \/ SeedRerun

SpecSeed == InitSeed /\ [][NextSeed]_vars

(* ---------------- C16 ---------------- *)
\* C16: with the seed and all parameters fixed, the totals (produced,
\* consumed) at the end of a run are those at the end of any other run.
C16_Determinism ==
  (seq.run = 2 /\ sup.pc = "exit") =>
    <<SumProduced(NumProducers), SumConsumed(NumConsumers)>> = seq.first

(* ---------------- the failure paths of a queue call ---------------- *)
\* the completed loops of sem_post of queue_shutdown
PostLoopsDone == shutdown_calls - (IF sup.pc = "qsd_post" THEN 1 ELSE 0)

\* buffer, front, rear and count are the same after the step
QueueDataSame ==
  /\ q'.buffer = q.buffer
  /\ q'.front = q.front
  /\ q'.rear = q.rear
  /\ q'.count = q.count

\* producer i takes a step of queue_enqueue_safe before the critical section
EnqPreStep(i) ==
  /\ prod[i].pc \in {"enq_entry", "enq_try", "enq_wait", "enq_recheck"}
  /\ \/ prod'[i].pc # prod[i].pc
     \/ prod[i].eintr /\ ~prod'[i].eintr

\* consumer j takes a step of queue_dequeue_safe before the critical section
DeqPreStep(j) ==
  /\ cons[j].pc \in {"deq_entry", "deq_try", "deq_wait", "deq_recheck"}
  /\ \/ cons'[j].pc # cons[j].pc
     \/ cons[j].eintr /\ ~cons'[j].eintr

\* the step makes queue_enqueue_safe return -1 because of shutdown: at the
\* entry check, after an interrupted wait, or at the re-check with the token
EnqShutdownReturn(i) == EnqPreStep(i) /\ prod'[i].pc = "done"

DeqShutdownReturn(j) == DeqPreStep(j) /\ cons'[j].pc = "done"

\* the step acquires a token: sem_trywait or sem_wait returned 0
EnqAcquire(i) == EnqPreStep(i) /\ prod[i].pc # "enq_recheck" /\ prod'[i].pc = "enq_recheck"

DeqAcquire(j) == DeqPreStep(j) /\ cons[j].pc # "deq_recheck" /\ cons'[j].pc = "deq_recheck"

(* ---------------- C21 ---------------- *)
\* C21: a step of an enqueue (dequeue) call before its critical section
\* leaves buffer, front, rear, count and the other semaphore as they are and
\* changes its own semaphore only by the token it acquires; a call that
\* returns failure because of shutdown holds a token only at the re-check
\* and posts it back in the step that returns, so that its net effect on
\* both semaphores is zero.
C21_ShutdownFailureFrame ==
  [][/\ \A i \in Producers :
          EnqPreStep(i) =>
            /\ QueueDataSame
            /\ items_available' = items_available
            /\ slots_available' = slots_available
                 + (IF EnqAcquire(i) THEN -1 ELSE 0)
                 + (IF EnqShutdownReturn(i) /\ prod[i].pc = "enq_recheck" THEN 1 ELSE 0)
            /\ EnqShutdownReturn(i) => q.shutdown = 1
     /\ \A j \in Consumers :
          DeqPreStep(j) =>
            /\ QueueDataSame
            /\ slots_available' = slots_available
            /\ items_available' = items_available
                 + (IF DeqAcquire(j) THEN -1 ELSE 0)
                 + (IF DeqShutdownReturn(j) /\ cons[j].pc = "deq_recheck" THEN 1 ELSE 0)
            /\ DeqShutdownReturn(j) => q.shutdown = 1]_vars

\* under shutdown one producer has returned failure without a message, a
\* second one stands at the re-check with the token it took, a consumer was
\* interrupted in its wait, and the slot tokens are those of the free slots,
\* of the shutdown posts and the one in flight
C21_Witness ==
  /\ q.shutdown = 1
  /\ PostLoopsDone = 1
  /\ \E i \in Producers : prod[i].pc = "done" /\ prod[i].messages_produced = 0
  /\ \E i \in Producers : prod[i].pc = "enq_recheck"
  /\ \E j \in Consumers : cons[j].pc = "deq_wait" /\ cons[j].eintr
  /\ slots_available + q.count + SlotTokensInFlight
       = q.capacity + queue_shutdown_posts

(* ---------------- pthread_mutex_lock fails ---------------- *)
\* a failed lock that returns without posting the token back
EnqLockFailKeep(i) ==
  /\ prod[i].pc = "enq_lock"
  /\ slots_available' = slots_available
  /\ prod' = [prod EXCEPT ![i] = producer_result(prod[i], -1)]
  /\ UNCHANGED <<q, items_available, mutex, now, flagvars,
                 cons, sup, histvars, envvars, anvars>>

\* queue_enqueue_safe: pthread_mutex_lock(&q->mutex) != 0:
\* sem_post(&q->slots_available); return -1;
EnqLockFail(i) ==
  /\ prod[i].pc = "enq_lock"
  /\ slots_available' = slots_available + 1
  /\ prod' = [prod EXCEPT ![i] = producer_result(prod[i], -1)]
  /\ UNCHANGED <<q, items_available, mutex, now, flagvars,
                 cons, sup, histvars, envvars, anvars>>

\* queue_dequeue_safe: pthread_mutex_lock(&q->mutex) != 0:
\* sem_post(&q->items_available); return -1;
DeqLockFail(j) ==
  /\ cons[j].pc = "deq_lock"
  /\ items_available' = items_available + 1
  /\ cons' = [cons EXCEPT ![j] = consumer_result(cons[j], -1)]
  /\ UNCHANGED <<q, slots_available, mutex, now, flagvars,
                 prod, sup, histvars, envvars, anvars>>

\* the workers on a live queue, where any call of pthread_mutex_lock may
\* return an error
NextFault ==
  \/ \E i \in Producers :
       \/ ProducerLoop(i) \/ EnqEntry(i) \/ EnqTry(i) \/ EnqWait(i)
       \/ EnqRecheck(i) \/ EnqLock(i) \/ EnqLockFail(i) \/ EnqUnlock(i)
       \/ EnqPost(i)
  \/ \E j \in Consumers :
       \/ ConsumerLoop(j) \/ DeqEntry(j) \/ DeqTry(j) \/ DeqWait(j)
       \/ DeqRecheck(j) \/ DeqLock(j) \/ DeqLockFail(j) \/ DeqUnlock(j)
       \/ DeqPost(j)
  \/ Tick

SpecFault == InitPrio /\ [][NextFault]_vars

\* the step is the return of a call whose pthread_mutex_lock failed
EnqLockFailStep(i) == prod[i].pc = "enq_lock" /\ prod'[i].pc = "done"

DeqLockFailStep(j) == cons[j].pc = "deq_lock" /\ cons'[j].pc = "done"

(* ---------------- C22 ---------------- *)
\* C22: a call whose pthread_mutex_lock fails after it acquired a token
\* returns an error (its worker counts no message), posts the token back to
\* the semaphore it took it from and leaves buffer, front, rear, count and
\* the other semaphore as they are; the semaphore accounting holds before
\* and after.
C22_LockFailure ==
  /\ [][/\ \A i \in Producers :
             EnqLockFailStep(i) =>
               /\ QueueDataSame
               /\ slots_available' = slots_available + 1
               /\ items_available' = items_available
               /\ prod'[i].messages_produced = prod[i].messages_produced
        /\ \A j \in Consumers :
             DeqLockFailStep(j) =>
               /\ QueueDataSame
               /\ items_available' = items_available + 1
               /\ slots_available' = slots_available
               /\ cons'[j].messages_consumed = cons[j].messages_consumed]_vars
  /\ [](/\ slots_available + q.count + SlotTokensInFlight = q.capacity
        /\ items_available + ItemTokensInFlight = q.count)

\* a producer and a consumer have both returned from a failed lock, each
\* before it moved a message, and the queue holds the message of the other
\* producer
C22_Witness ==
  /\ \E i \in Producers : prod[i].pc = "done" /\ prod[i].messages_produced = 0
  /\ \E j \in Consumers : cons[j].pc = "done" /\ cons[j].messages_consumed = 0
  /\ q.count = 1
  /\ items_available = 1
  /\ slots_available = q.capacity - 1
  /\ mutex = NoThread

(* ---------------- C23 ---------------- *)
\* the step is the one in which producer i (consumer j) sees that its
\* sem_wait returned EINTR
EnqEintrStep(i) ==
  prod[i].pc = "enq_wait" /\ prod'[i].eintr_count = prod[i].eintr_count + 1

DeqEintrStep(j) ==
  cons[j].pc = "deq_wait" /\ cons'[j].eintr_count = cons[j].eintr_count + 1

\* C23: a sem_wait that returned EINTR is retried when the shutdown flag is
\* clear; when the flag is set the call returns failure; either way the
\* step takes no token and posts none, and in every state the semaphore
\* values are those of the accounting plus the completed shutdown posts: no
\* token is leaked or made up.
C23_InterruptedWait ==
  /\ [][/\ \A i \in Producers :
             EnqEintrStep(i) =>
               /\ slots_available' = slots_available
               /\ items_available' = items_available
               /\ QueueDataSame
               /\ IF q.shutdown = 0
                  THEN prod'[i].pc = "enq_wait" /\ ~prod'[i].eintr
                  ELSE /\ prod'[i].pc = "done"
                       /\ prod'[i].messages_produced = prod[i].messages_produced
        /\ \A j \in Consumers :
             DeqEintrStep(j) =>
               /\ slots_available' = slots_available
               /\ items_available' = items_available
               /\ QueueDataSame
               /\ IF q.shutdown = 0
                  THEN cons'[j].pc = "deq_wait" /\ ~cons'[j].eintr
                  ELSE /\ cons'[j].pc = "done"
                       /\ cons'[j].messages_consumed = cons[j].messages_consumed]_vars
  /\ [](/\ slots_available + q.count + SlotTokensInFlight
             = q.capacity + queue_shutdown_posts * PostLoopsDone
        /\ items_available + ItemTokensInFlight
             = q.count + queue_shutdown_posts * PostLoopsDone)

\* main has set the flag and not yet posted; a consumer whose wait on an
\* empty queue a signal interrupted has seen the flag and returned, and
\* items_available is still 0
C23_Witness ==
  /\ sup.pc = "qsd_post"
  /\ q.shutdown = 1
  /\ enq_count = 0
  /\ items_available = 0
  /\ \E j \in Consumers :
       /\ cons[j].pc = "done"
       /\ cons[j].eintr_count = 1
       /\ cons[j].messages_consumed = 0
       /\ cons[j].times_blocked = 0

(* ---------------- C25 ---------------- *)
\* the threads between pthread_mutex_lock and pthread_mutex_unlock of a
\* queue call
InCriticalSection ==
  {ProducerThread(i) : i \in {x \in Producers : prod[x].pc = "enq_unlock"}}
  \cup {ConsumerThread(j) : j \in {x \in Consumers : cons[x].pc = "deq_unlock"}}

\* C25: at most one thread is inside the critical section of the queue, and
\* it is the holder of the mutex; a step that writes a buffer slot, front,
\* rear or count is a step of an enqueue or dequeue whose thread holds the
\* mutex at the write (it has just locked it, or it unlocks it thereafter).
C25_MutualExclusion ==
  /\ [](/\ Cardinality(InCriticalSection) <= 1
        /\ \A t \in InCriticalSection : mutex = t
        /\ mutex \notin {NoThread, UninitMutex, DestroyedMutex}
             => mutex \in InCriticalSection)
  /\ [][~QueueDataSame =>
          \/ \E i \in Producers :
               \/ prod[i].pc = "enq_lock" /\ mutex = NoThread
                    /\ mutex' = ProducerThread(i)
               \/ prod[i].pc = "enq_unlock" /\ mutex = ProducerThread(i)
                    /\ prod'[i].pc # "enq_unlock"
          \/ \E j \in Consumers :
               \/ cons[j].pc = "deq_lock" /\ mutex = NoThread
                    /\ mutex' = ConsumerThread(j)
               \/ cons[j].pc = "deq_unlock" /\ mutex = ConsumerThread(j)
                    /\ cons'[j].pc # "deq_unlock"]_vars

\* a producer is inside the critical section with its message written and
\* count not yet incremented, while a consumer that holds the token of the
\* other producer's message stands at pthread_mutex_lock
C25_Witness ==
  /\ \E i \in Producers :
       /\ prod[i].pc = "enq_unlock"
       /\ prod[i].result = 0
       /\ mutex = ProducerThread(i)
  /\ \E j \in Consumers : cons[j].pc = "deq_lock"
  /\ q.count = 1
  /\ q.rear # (q.front + q.count) % q.capacity

(* ---------------- stopping the workers ---------------- *)
\* producer_thread, the loop of a producer that has time for StopOps messages
StopProducerLoop(i) ==
  /\ prod[i].pc = "p_loop"
  /\ IF running = 0
     THEN prod' = [prod EXCEPT ![i].pc = "done"]
     ELSE /\ prod[i].messages_produced < StopOps
          /\ \E data \in DataValues, priority \in prios :
               prod' = [prod EXCEPT
                 ![i].pc = "enq_entry",
                 ![i].msg = message_create(data, priority, i,
                              (i - 1) * StopOps + prod[i].messages_produced + 1),
                 ![i].was_blocked = 0]
  /\ UNCHANGED <<q, slots_available, items_available, mutex, now, flagvars,
                 cons, sup, histvars, envvars, anvars>>

\* main in its wait loop in a run with one producer and one consumer
\* (num_producers = num_consumers = 1)
InitStop ==
  /\ \E capacity \in MIN_QUEUE_SIZE..Capacity : InitQueue(capacity)
  /\ aging = AgingIntervalMs
  /\ prios = OnePriority
  /\ now = 0
  /\ running = 1
  /\ shutdown_in_progress = 0
  /\ queue_initialized = 1
  /\ prod = [i \in Producers |->
              IF i = 1 THEN [ProducerInit EXCEPT !.pc = "p_loop"] ELSE ProducerInit]
  /\ cons = [j \in Consumers |->
              IF j = 1 THEN [ConsumerInit EXCEPT !.pc = "c_loop"] ELSE ConsumerInit]
  /\ sup = [SupInit EXCEPT !.pc = "wait_loop",
                           !.num_producers_created = 1,
                           !.num_consumers_created = 1]
  /\ signals = 0
  /\ rng = 0
  /\ InitAnalyticsOff
  /\ InitHistory
  /\ seq = SeqNone

\* the program with a producer that goes round its loop more than once
NextStop ==
  \/ \E i \in Producers :
       \/ StopProducerLoop(i) \/ EnqEntry(i) \/ EnqTry(i) \/ EnqWait(i)
       \/ EnqEintr(i) \/ EnqRecheck(i) \/ EnqLock(i) \/ EnqUnlock(i)
       \/ EnqPost(i)
  \/ \E j \in Consumers : ConsumerStep(j)
  \/ SupWait \/ SupCheckSip \/ SupSetSip \/ SupClearRunning \/ SupQsdFlag
  \/ SupQsdPost \/ SupJoinProducer \/ SupJoinConsumer \/ SupSummary
  \/ SupCleanup \/ SupReturn
  \/ \E t \in LiveThreads : Signal(t)

SpecStop == InitStop /\ [][NextStop]_vars

FairSpecStop ==
  /\ SpecStop
  /\ WF_vars(SupStep)
  /\ \A i \in Producers :
       WF_vars(\/ StopProducerLoop(i) \/ EnqEntry(i) \/ EnqTry(i) \/ EnqWait(i)
               \/ EnqEintr(i) \/ EnqRecheck(i) \/ EnqLock(i) \/ EnqUnlock(i)
               \/ EnqPost(i))
  /\ \A j \in Consumers : WF_vars(ConsumerStep(j))

(* ---------------- C26 ---------------- *)
\* C26: after running has become 0 a producer or consumer counts at most
\* one more message, that of the turn of its loop it was in, and then
\* terminates; a worker that sleeps (it is between two queue calls) does not
\* hold the queue mutex.
C26_CancellationPolite ==
  /\ [](/\ \A i \in Producers : prod[i].after_stop <= 1
        /\ \A j \in Consumers : cons[j].after_stop <= 1)
  /\ [](/\ \A i \in Producers : prod[i].pc = "p_loop" => mutex # ProducerThread(i)
        /\ \A j \in Consumers : cons[j].pc = "c_loop" => mutex # ConsumerThread(j))
  /\ (running = 0) ~> NoWorkerRunning

\* all workers have terminated; a producer counted its second message and a
\* consumer a message after running had become 0, and another message is
\* left in the queue
C26_Witness ==
  /\ NoWorkerRunning
  /\ \E i \in Producers : prod[i].messages_produced = 2 /\ prod[i].after_stop = 1
  /\ \E j \in Consumers : cons[j].after_stop = 1
  /\ q.count > 0

(* ---------------- C27 ---------------- *)
\* the step is a run of signal_handler
SignalStep == signals' = signals + 1

\* C27: a run of signal_handler writes flags and posts semaphores: it leaves
\* the queue mutex, buffer, front, rear and count as they are and moves no
\* worker from where it stands, whichever thread it runs on; after a signal,
\* also one taken by the holder of the queue mutex or by a thread parked in
\* sem_wait, every worker terminates.
C27_HandlerNoDeadlock ==
  /\ [][SignalStep =>
          /\ mutex' = mutex
          /\ QueueDataSame
          /\ \A i \in Producers : prod'[i].pc = prod[i].pc
          /\ \A j \in Consumers : cons'[j].pc = cons[j].pc]_vars
  /\ (signals > 0) ~> AllWorkersDone

\* every worker has terminated after a run in which the handler ran on a
\* producer that held the queue mutex; that producer went on to count its
\* message
C27_Witness ==
  /\ AllWorkersDone
  /\ signals = 1
  /\ shutdown_calls = 1
  /\ \E i \in Producers : prod[i].sig_locked /\ prod[i].messages_produced = 1

(* ---------------- main from the installation of the handlers ---------------- *)
\* static Queue shared_queue: zero-initialised storage
StaticQueue == [queue_init(MAX_QUEUE_SIZE) EXCEPT !.capacity = 0]

\* main after setup_signal_handlers, before queue_init
InitEarly ==
  /\ q = StaticQueue
  /\ slots_available = SemUninit
  /\ items_available = SemUninit
  /\ mutex = UninitMutex
  /\ aging = AgingIntervalMs
  /\ prios = OnePriority
  /\ now = 0
  /\ running = 1
  /\ shutdown_in_progress = 0
  /\ queue_initialized = 0
  /\ prod = [i \in Producers |-> ProducerInit]
  /\ cons = [j \in Consumers |-> ConsumerInit]
  /\ sup = [SupInit EXCEPT !.pc = "queue_init"]
  /\ signals = 0
  /\ rng = 0
  /\ InitAnalyticsOff
  /\ InitHistory
  /\ seq = SeqNone

\* main: queue_init(&shared_queue, runtime_params.queue_size, ...) returns 0
\* (validate_parameters has let the size pass)
SupQueueInit ==
  /\ sup.pc = "queue_init"
  /\ \E capacity \in MIN_QUEUE_SIZE..Capacity :
       /\ queue_init_result(capacity) = 0
       /\ q' = queue_init(capacity)
       /\ slots_available' = capacity
  /\ items_available' = 0
  /\ mutex' = NoThread
  /\ sup' = [sup EXCEPT !.pc = "set_queue_initialized"]
  /\ UNCHANGED <<now, flagvars, prod, cons, histvars, envvars, anvars>>

\* main: queue_initialized = 1;
SupSetQueueInitialized ==
  /\ sup.pc = "set_queue_initialized"
  /\ queue_initialized' = 1
  /\ sup' = [sup EXCEPT !.pc = "analytics_init"]
  /\ UNCHANGED <<q, slots_available, items_available, mutex, now, running,
                 shutdown_in_progress, prod, cons, histvars, envvars, anvars>>

SupEarlyStep == SupQueueInit \/ SupSetQueueInitialized

NextEarly == NextLife \/ SupEarlyStep

SpecEarly == InitEarly /\ [][NextEarly]_vars

\* main and every worker are scheduled again and again
FairSpecEarly ==
  /\ SpecEarly
  /\ WF_vars(SupStep \/ SupFailStep \/ SupEarlyStep)
  /\ \A i \in Producers : WF_vars(ProducerStep(i))
  /\ \A j \in Consumers : WF_vars(ConsumerStep(j))

\* cleanup_resources has returned
CleanupDone == sup.pc \in {"returning", "exit"}

(* ---------------- C28 ---------------- *)
\* C28: after a stop signal, delivered at any point from the installation of
\* the handlers on (before queue_init, before queue_initialized is set,
\* during the creation of the workers, in the wait loop or on the timeout
\* path), main gets through cleanup_resources with every created worker
\* terminated and joined; no created worker stays parked in a wait.
C28_SignalAnywhere ==
  /\ (signals > 0) ~>
       (CleanupDone /\ NoWorkerRunning /\ sup.joined = CreatedThreads)
  /\ []((signals > 0 /\ CleanupDone) =>
          (NoWorkerRunning /\ sup.joined = CreatedThreads))

\* the signal came before queue_initialized was set, so that queue_shutdown
\* was never called; all workers were created nevertheless, and all were
\* joined
C28_Witness ==
  /\ sup.pc = "exit"
  /\ signals = 1
  /\ shutdown_calls = 0
  /\ q.shutdown = 0
  /\ sup.num_producers_created = NumProducers
  /\ sup.num_consumers_created = NumConsumers
  /\ Cardinality(sup.joined) = NumProducers + NumConsumers
  /\ AllWorkersDone

(* ---------------- analytics_record_* (analytics.c) ---------------- *)
\* pthread_mutex_lock(&analytics->mutex); the counter of the call is read
record_lock(w, thread) ==
  [w EXCEPT !.pc = "rec_unlock", !.tmp = analytics[Head(w.rec)]]

\* the call is over: the next call, or the position after the calls
record_done(w) ==
  IF Tail(w.rec) = <<>>
  THEN [w EXCEPT !.pc = w.after, !.after = "", !.rec = <<>>, !.tmp = 0]
  ELSE [w EXCEPT !.pc = "rec_lock", !.rec = Tail(w.rec), !.tmp = 0]

\* analytics->total_x++; pthread_mutex_unlock(&analytics->mutex);
record_unlock(w) ==
  [analytics EXCEPT ![Head(w.rec)] = w.tmp + 1, !.mutex = NoThread]

\* a record call that does not wait for the analytics mutex
ProdRecLockFree(i) ==
  /\ prod[i].pc = "rec_lock"
  /\ analytics' = [analytics EXCEPT !.mutex = ProducerThread(i)]
  /\ prod' = [prod EXCEPT ![i] = record_lock(prod[i], ProducerThread(i))]
  /\ UNCHANGED <<q, slots_available, items_available, mutex, now, flagvars,
                 cons, sup, histvars, envvars, sampler, mono>>

\* analytics_record_produce / analytics_record_producer_block: lock
ProdRecLock(i) ==
  /\ prod[i].pc = "rec_lock"
  /\ analytics.mutex = NoThread
  /\ analytics' = [analytics EXCEPT !.mutex = ProducerThread(i)]
  /\ prod' = [prod EXCEPT ![i] = record_lock(prod[i], ProducerThread(i))]
  /\ UNCHANGED <<q, slots_available, items_available, mutex, now, flagvars,
                 cons, sup, histvars, envvars, sampler, mono>>

\* analytics_record_produce / analytics_record_producer_block: count, unlock
ProdRecUnlock(i) ==
  /\ prod[i].pc = "rec_unlock"
  /\ analytics' = record_unlock(prod[i])
  /\ prod' = [prod EXCEPT ![i] = record_done(prod[i])]
  /\ UNCHANGED <<q, slots_available, items_available, mutex, now, flagvars,
                 cons, sup, histvars, envvars, sampler, mono>>

\* analytics_record_consume / analytics_record_consumer_block: lock
ConsRecLock(j) ==
  /\ cons[j].pc = "rec_lock"
  /\ analytics.mutex = NoThread
  /\ analytics' = [analytics EXCEPT !.mutex = ConsumerThread(j)]
  /\ cons' = [cons EXCEPT ![j] = record_lock(cons[j], ConsumerThread(j))]
  /\ UNCHANGED <<q, slots_available, items_available, mutex, now, flagvars,
                 prod, sup, histvars, envvars, sampler, mono>>

\* a record call that returns with the analytics mutex still locked
ConsRecUnlockKeep(j) ==
  /\ cons[j].pc = "rec_unlock"
  /\ analytics' = [analytics EXCEPT ![Head(cons[j].rec)] = cons[j].tmp + 1]
  /\ cons' = [cons EXCEPT ![j] = record_done(cons[j])]
  /\ UNCHANGED <<q, slots_available, items_available, mutex, now, flagvars,
                 prod, sup, histvars, envvars, sampler, mono>>

\* analytics_record_consume / analytics_record_consumer_block: count, unlock
ConsRecUnlock(j) ==
  /\ cons[j].pc = "rec_unlock"
  /\ analytics' = record_unlock(cons[j])
  /\ cons' = [cons EXCEPT ![j] = record_done(cons[j])]
  /\ UNCHANGED <<q, slots_available, items_available, mutex, now, flagvars,
                 prod, sup, histvars, envvars, sampler, mono>>

ProdRecStep(i) == ProdRecLock(i) \/ ProdRecUnlock(i)
ConsRecStep(j) == ConsRecLock(j) \/ ConsRecUnlock(j)

(* ---------------- sampling_thread_func (analytics.c) ---------------- *)
\* analytics->queue_samples[index] = sample
array_put(samples, index, sample) ==
  IF index < Len(samples)
  THEN [samples EXCEPT ![index + 1] = sample]
  ELSE Append(samples, sample)

\* a store that starts again at slot 0 when the array is full
sample_store_ring(a, occupancy) ==
  [a EXCEPT !.queue_samples =
              array_put(a.queue_samples, a.num_samples % MAX_QUEUE_SAMPLES,
                        QueueSample(mono, occupancy, a.queue_capacity)),
            !.num_samples = IF a.num_samples < MAX_QUEUE_SAMPLES
                            THEN a.num_samples + 1 ELSE 1]

\* if (analytics->num_samples < MAX_QUEUE_SAMPLES) { sample.timestamp =
\* time_elapsed(); ...; queue_samples[num_samples] = sample; num_samples++; }
sample_store(a, occupancy) ==
  IF a.num_samples < MAX_QUEUE_SAMPLES
  THEN [a EXCEPT !.queue_samples =
                   array_put(a.queue_samples, a.num_samples,
                             QueueSample(mono, occupancy, a.queue_capacity)),
                 !.num_samples = a.num_samples + 1]
  ELSE a

\* queue_occupancy_sum += occupancy; the maximum, the minimum, the counts of
\* full and of empty samples
sample_aggregates(a, occupancy) ==
  [a EXCEPT !.queue_occupancy_sum = a.queue_occupancy_sum + occupancy,
            !.queue_max_occupancy = IF occupancy > a.queue_max_occupancy
                                    THEN occupancy ELSE a.queue_max_occupancy,
            !.queue_min_occupancy = IF occupancy < a.queue_min_occupancy
                                    THEN occupancy ELSE a.queue_min_occupancy,
            !.queue_full_count = IF occupancy >= a.queue_capacity
                                 THEN a.queue_full_count + 1 ELSE a.queue_full_count,
            !.queue_empty_count = IF occupancy = 0
                                  THEN a.queue_empty_count + 1 ELSE a.queue_empty_count]

\* while (analytics->sampling_active) { occupancy = queue_get_count(queue_ptr);
\* the count is read without q->mutex. The specification follows at most
\* limit passes.
SamplerLoopUpTo(limit) ==
  /\ sampler.pc = "s_loop"
  /\ IF analytics.sampling_active = 0
     THEN sampler' = [sampler EXCEPT !.pc = "done"]
     ELSE /\ sampler.rounds < limit
          /\ sampler' = [sampler EXCEPT !.pc = "s_lock", !.occupancy = q.count]
  /\ UNCHANGED <<q, slots_available, items_available, mutex, now, flagvars,
                 prod, cons, sup, histvars, envvars, analytics, mono>>

SamplerLoop == SamplerLoopUpTo(SampleRounds)

\* pthread_mutex_lock(&analytics->mutex); the sample; the aggregates
SamplerLock ==
  /\ sampler.pc = "s_lock"
  /\ analytics.mutex = NoThread
  /\ analytics' = [sample_aggregates(sample_store(analytics, sampler.occupancy),
                                     sampler.occupancy)
                    EXCEPT !.mutex = SamplerThread]
  /\ sampler' = [sampler EXCEPT !.pc = "s_unlock"]
  /\ UNCHANGED <<q, slots_available, items_available, mutex, now, flagvars,
                 prod, cons, sup, histvars, envvars, mono>>

\* pthread_mutex_unlock(&analytics->mutex); sleep(SAMPLE_INTERVAL_SEC); }
SamplerUnlock ==
  /\ sampler.pc = "s_unlock"
  /\ analytics' = [analytics EXCEPT !.mutex = NoThread]
  /\ sampler' = [sampler EXCEPT !.pc = "s_loop", !.occupancy = 0,
                                !.rounds = sampler.rounds + 1]
  /\ UNCHANGED <<q, slots_available, items_available, mutex, now, flagvars,
                 prod, cons, sup, histvars, envvars, mono>>

SamplerStep == SamplerLoop \/ SamplerLock \/ SamplerUnlock

(* ---------------- main and the sampling thread (main.c) ---------------- *)
\* analytics_start_sampling: sampling_active = 1; pthread_create; when
\* pthread_create fails sampling_active = 0 and main goes on without sampler
SupStartSampling ==
  /\ sup.pc = "start_sampling"
  /\ \E created \in BOOLEAN :
       /\ analytics' = [analytics EXCEPT !.sampling_active = IF created THEN 1 ELSE 0]
       /\ sampler' = [sampler EXCEPT !.pc = IF created THEN "s_loop" ELSE "idle"]
  /\ sup' = [sup EXCEPT !.pc = "wait_loop"]
  /\ UNCHANGED <<q, slots_available, items_available, mutex, now, flagvars,
                 prod, cons, histvars, envvars, mono>>

\* finalize_shutdown: analytics_stop_sampling: if (!sampling_active) return;
\* sampling_active = 0;
SupFinalize ==
  /\ sup.pc = "finalize"
  /\ IF analytics.sampling_active = 0
     THEN /\ analytics' = analytics
          /\ sup' = [sup EXCEPT !.pc = "join_producers", !.i = 0]
     ELSE /\ analytics' = [analytics EXCEPT !.sampling_active = 0]
          /\ sup' = [sup EXCEPT !.pc = "join_sampler"]
  /\ UNCHANGED <<q, slots_available, items_available, mutex, now, flagvars,
                 prod, cons, histvars, envvars, sampler, mono>>

\* analytics_stop_sampling: pthread_join(analytics->sampling_thread, NULL)
SupJoinSampler ==
  /\ sup.pc = "join_sampler"
  /\ sampler.pc = "done"
  /\ sup' = [sup EXCEPT !.pc = "join_producers", !.i = 0,
                        !.joined = sup.joined \cup {SamplerThread}]
  /\ UNCHANGED <<q, slots_available, items_available, mutex, now, flagvars,
                 prod, cons, histvars, envvars, anvars>>

SupAnStep == SupStartSampling \/ SupFinalize \/ SupJoinSampler

(* ---------------- the program with its analytics ---------------- *)
\* main after setup_signal_handlers, queue_init and analytics_init, with the
\* calls into analytics.c followed
InitAn ==
  /\ \E capacity \in MIN_QUEUE_SIZE..Capacity :
       /\ InitQueue(capacity)
       /\ analytics = analytics_init(capacity, TRUE)
  /\ sampler = SamplerInit
  /\ mono = 0
  /\ aging = AgingIntervalMs
  /\ prios = OnePriority
  /\ now = 0
  /\ running = 1
  /\ shutdown_in_progress = 0
  /\ queue_initialized = 1
  /\ prod = [i \in Producers |-> ProducerInit]
  /\ cons = [j \in Consumers |-> ConsumerInit]
  /\ sup = SupInit
  /\ signals = 0
  /\ rng = 0
  /\ InitHistory
  /\ seq = SeqNone

\* the steps of a producer and of a consumer in a run that takes no signal
\* (no sem_wait returns EINTR)
ProducerAnStep(i) ==
  \/ ProducerLoop(i) \/ EnqEntry(i) \/ EnqTry(i) \/ EnqWait(i)
  \/ EnqRecheck(i) \/ EnqLock(i) \/ EnqUnlock(i) \/ EnqPost(i)
  \/ ProdRecStep(i)

ConsumerAnStep(j) ==
  \/ ConsumerLoop(j) \/ DeqEntry(j) \/ DeqTry(j) \/ DeqWait(j)
  \/ DeqRecheck(j) \/ DeqLock(j) \/ DeqUnlock(j) \/ DeqPost(j)
  \/ ConsRecStep(j)

\* The run ends on the timeout of main; the signal paths are those of Spec.
NextAn ==
  \/ \E i \in Producers : ProducerAnStep(i)
  \/ \E j \in Consumers : ConsumerAnStep(j)
  \/ SupStep
  \/ SupAnStep
  \/ SamplerStep

SpecAn == InitAn /\ [][NextAn]_vars

RECURSIVE SumProducerBlocks(_)
SumProducerBlocks(n) ==
  IF n = 0 THEN 0 ELSE prod[n].times_blocked + SumProducerBlocks(n - 1)

RECURSIVE SumConsumerBlocks(_)
SumConsumerBlocks(n) ==
  IF n = 0 THEN 0 ELSE cons[n].times_blocked + SumConsumerBlocks(n - 1)

\* C30: with the analytics attached, once main has joined every worker the
\* four totals of the analytics equal the sums of the workers' own counters:
\* no analytics_record_* update is lost, and none is counted twice.
C30_TotalsAgree ==
  AllJoined =>
    /\ analytics.total_produced = SumProduced(sup.num_producers_created)
    /\ analytics.total_consumed = SumConsumed(sup.num_consumers_created)
    /\ analytics.total_producer_blocks = SumProducerBlocks(sup.num_producers_created)
    /\ analytics.total_consumer_blocks = SumConsumerBlocks(sup.num_consumers_created)

\* every worker joined; two producers and a consumer have recorded, and a
\* worker was blocked
C30_Witness ==
  /\ AllJoined
  /\ analytics.attached
  /\ analytics.total_produced = NumProducers * MaxOps
  /\ analytics.total_consumed > 0
  /\ analytics.total_producer_blocks + analytics.total_consumer_blocks > 0

(* ---------------- C24 ---------------- *)
\* the mutexes thread t holds
HeldMutexes(t) ==
  (IF mutex = t THEN {"queue"} ELSE {}) \cup (IF analytics.mutex = t THEN {"analytics"} ELSE {})

\* the threads that stand at a sem_trywait or a sem_wait
AtSemAcquire ==
  {ProducerThread(i) : i \in {x \in Producers : prod[x].pc \in {"enq_try", "enq_wait"}}}
  \cup {ConsumerThread(j) : j \in {x \in Consumers : cons[x].pc \in {"deq_try", "deq_wait"}}}

AllThreads ==
  {MainThread, SamplerThread}
  \cup {ProducerThread(i) : i \in Producers}
  \cup {ConsumerThread(j) : j \in Consumers}

\* C24: lock discipline. A thread that stands at a sem_trywait or sem_wait,
\* and a thread whose step takes a token from a semaphore, holds neither the
\* queue mutex nor the analytics mutex; no thread holds both mutexes at once.
C24_LockDiscipline ==
  /\ [](\A t \in AtSemAcquire : HeldMutexes(t) = {})
  /\ [](\A t \in AllThreads : Cardinality(HeldMutexes(t)) <= 1)
  /\ [][/\ \A i \in Producers :
             EnqAcquire(i) => HeldMutexes(ProducerThread(i)) = {}
        /\ \A j \in Consumers :
             DeqAcquire(j) => HeldMutexes(ConsumerThread(j)) = {}]_vars

\* a producer waits in sem_wait while the consumer holds the queue mutex and
\* another thread holds the analytics mutex
C24_Witness ==
  /\ \E i \in Producers : prod[i].pc = "enq_wait" /\ prod[i].try_failed
  /\ mutex \in {ConsumerThread(j) : j \in Consumers}
  /\ analytics.mutex \in AllThreads
  /\ analytics.mutex # mutex

(* ---------------- the sampling thread over a long run ---------------- *)
\* CLOCK_MONOTONIC advances (it never goes back)
MonoTick ==
  /\ mono < MaxClock
  /\ mono' = mono + 1
  /\ UNCHANGED <<q, slots_available, items_available, mutex, now, flagvars,
                 prod, cons, sup, histvars, envvars, analytics, sampler>>

\* the analytics after n passes of the sampler over an empty queue at time 0
analytics_after(capacity, n) ==
  [analytics_init(capacity, TRUE) EXCEPT
     !.sampling_active = 1,
     !.num_samples = n,
     !.queue_samples = [k \in 1..n |-> QueueSample(0, 0, capacity)],
     !.queue_min_occupancy = IF n > 0 THEN 0 ELSE capacity,
     !.queue_empty_count = n]

\* the passes followed: to the bound and past it
SeriesRounds == SampleMargin + SampleRounds + 1

\* main waits in its loop, the workers have been created and have not run
\* yet, and the sampler has made no pass or is SampleMargin passes away from
\* a full array
InitSampler ==
  /\ \E capacity \in MIN_QUEUE_SIZE..Capacity :
       /\ InitQueue(capacity)
       /\ \E n \in {0, MAX_QUEUE_SAMPLES - SampleMargin} :
            analytics = analytics_after(capacity, n)
  /\ sampler = [SamplerInit EXCEPT !.pc = "s_loop"]
  /\ mono = 0
  /\ aging = AgingIntervalMs
  /\ prios = OnePriority
  /\ now = 0
  /\ running = 1
  /\ shutdown_in_progress = 0
  /\ queue_initialized = 1
  /\ prod = [i \in Producers |-> [ProducerInit EXCEPT !.pc = "p_loop"]]
  /\ cons = [j \in Consumers |-> [ConsumerInit EXCEPT !.pc = "c_loop"]]
  /\ sup = [SupInit EXCEPT !.pc = "wait_loop", !.num_producers_created = NumProducers,
                           !.num_consumers_created = NumConsumers]
  /\ signals = 0
  /\ rng = 0
  /\ InitHistory
  /\ seq = SeqNone

\* the sampling thread, the clock, and main from its wait to the join of
\* the sampling thread
NextSampler ==
  \/ SamplerLoopUpTo(SeriesRounds) \/ SamplerLock \/ SamplerUnlock
  \/ MonoTick
  \/ SupWait \/ SupCheckSip \/ SupSetSip \/ SupClearRunning \/ SupQsdFlag
  \/ SupQsdPost \/ SupFinalize \/ SupJoinSampler

SpecSampler == InitSampler /\ [][NextSampler]_vars

(* ---------------- C29 ---------------- *)
\* a pass of the sampler enters its locked part
SamplerLockStep == sampler.pc = "s_lock" /\ sampler'.pc = "s_unlock"

\* C29: the sampler stores at most MAX_QUEUE_SAMPLES samples: num_samples
\* stays within 0..MAX_QUEUE_SAMPLES and counts the stored samples; a pass
\* made when the array is full stores nothing and goes on to its unlock; no
\* step changes a sample that is stored; the stored samples are in
\* non-decreasing order of their timestamps.
C29_SamplesBounded ==
  /\ [](/\ analytics.num_samples >= 0
        /\ analytics.num_samples <= MAX_QUEUE_SAMPLES
        /\ Len(analytics.queue_samples) = analytics.num_samples)
  /\ [](\A k \in 1..(Len(analytics.queue_samples) - 1) :
          analytics.queue_samples[k].timestamp
            <= analytics.queue_samples[k + 1].timestamp)
  /\ [][/\ (SamplerLockStep /\ analytics.num_samples = MAX_QUEUE_SAMPLES) =>
             /\ analytics'.queue_samples = analytics.queue_samples
             /\ analytics'.num_samples = analytics.num_samples
             /\ analytics'.mutex = SamplerThread
        /\ Len(analytics'.queue_samples) >= Len(analytics.queue_samples)
        /\ \A k \in 1..Len(analytics.queue_samples) :
             analytics'.queue_samples[k] = analytics.queue_samples[k]]_vars

\* the array is full, its last sample was taken after the clock had moved,
\* and one more pass has been made and dropped
C29_Witness ==
  /\ analytics.num_samples = MAX_QUEUE_SAMPLES
  /\ sampler.rounds = SampleMargin + 1
  /\ analytics.queue_empty_count = MAX_QUEUE_SAMPLES + 1
  /\ analytics.queue_samples[MAX_QUEUE_SAMPLES].timestamp
       > analytics.queue_samples[MAX_QUEUE_SAMPLES - 1].timestamp

(* ---------------- C35 ---------------- *)
\* a call enters internal_enqueue (internal_dequeue): the step that locks
\* q->mutex
EnqEnterStep(i) == prod[i].pc = "enq_lock" /\ prod'[i].pc = "enq_unlock"

DeqEnterStep(j) == cons[j].pc = "deq_lock" /\ cons'[j].pc = "deq_unlock"

\* C35: the overflow branch of internal_enqueue and the underflow branch of
\* internal_dequeue are never taken: a call enters internal_enqueue only
\* with count < capacity and internal_dequeue only with count > 0, and both
\* return 0, also after queue_shutdown has posted its extra tokens.
C35_DefensiveBranchesDead ==
  /\ [][/\ \A i \in Producers :
             EnqEnterStep(i) => /\ q.count < q.capacity
                                /\ internal_enqueue_result(q) = 0
                                /\ prod'[i].result = 0
        /\ \A j \in Consumers :
             DeqEnterStep(j) => /\ q.count > 0
                                /\ internal_dequeue_result(q, now, aging) = 0
                                /\ cons'[j].result = 0]_vars
  /\ [](\A i \in Producers : prod[i].pc = "enq_unlock" => prod[i].result = 0)
  /\ [](\A j \in Consumers : cons[j].pc = "deq_unlock" => cons[j].result = 0)

\* queue_shutdown has posted its extra tokens, and a producer that passed
\* its re-check before the flag was set is inside internal_enqueue, filling
\* the last free slot
C35_Witness ==
  /\ q.shutdown = 1
  /\ PostLoopsDone >= 1
  /\ slots_available >= queue_shutdown_posts
  /\ \E i \in Producers : prod[i].pc = "enq_unlock" /\ prod[i].result = 0
  /\ q.count = q.capacity - 1

C37_NoDrain ==
  /\ [][/\ \A j \in Consumers :
             /\ (cons[j].pc = "deq_entry" /\ q.shutdown = 1 /\ cons'[j] # cons[j]) =>
                  /\ cons'[j].pc = "done"
                  /\ cons'[j].messages_consumed = cons[j].messages_consumed
                  /\ QueueDataSame
                  /\ items_available' = items_available
                  /\ returned' = returned
             /\ (cons[j].pc = "deq_recheck" /\ cons'[j].pc = "deq_lock") => q.shutdown = 0
        /\ \A i \in Producers :
             /\ (prod[i].pc = "enq_entry" /\ q.shutdown = 1 /\ prod'[i] # prod[i]) =>
                  /\ prod'[i].pc = "done"
                  /\ QueueDataSame
                  /\ slots_available' = slots_available
             /\ (prod[i].pc = "enq_recheck" /\ prod'[i].pc = "enq_lock") => q.shutdown = 0
        /\ (q.shutdown = 1 /\ q'.count # q.count) =>
             \/ \E i \in Producers :
                  /\ prod[i].pc = "enq_unlock" /\ mutex = ProducerThread(i)
                  /\ prod'[i].pc # "enq_unlock"
             \/ \E j \in Consumers :
                  /\ cons[j].pc = "deq_unlock" /\ mutex = ConsumerThread(j)
                  /\ cons'[j].pc # "deq_unlock"]_vars
  /\ [](AllJoined => q.count >= 0 /\ q.count <= q.capacity)

\* the residual of a run: what the summary reads with queue_get_count
ResidualIs(k) == AllJoined /\ q.shutdown = 1 /\ q.count = k

\* the run has ended with a full queue of capacity Capacity: the consumer
\* is done and has taken nothing although messages were there
C37_Witness ==
  /\ sup.pc = "exit"
  /\ q.capacity = Capacity
  /\ ResidualIs(Capacity)
  /\ \A j \in Consumers : cons[j].pc = "done" /\ cons[j].messages_consumed = 0
  /\ returned = {}

(* ---------------- C40 ---------------- *)
\* C40: running is cleared before q->shutdown is set, on the path of main and
\* in signal_handler, and is never set again: whenever q->shutdown is 1
\* running is 0, a call that returns failure under shutdown returns while
\* running is 0, and no worker that left its loop on a failed call has read
\* running as set (the branch "failed (unexpected)" is not taken).
C40_RunningClearedFirst ==
  /\ [](q.shutdown = 1 => running = 0 /\ shutdown_in_progress = 1)
  /\ [](\A i \in Producers : ~prod[i].unexpected)
  /\ [](\A j \in Consumers : ~cons[j].unexpected)
  /\ [][/\ running = 0 => running' = 0
        /\ \A i \in Producers : EnqShutdownReturn(i) => running = 0 /\ running' = 0
        /\ \A j \in Consumers : DeqShutdownReturn(j) => running = 0 /\ running' = 0]_vars

\* the timeout path, no signal: a producer and a consumer have left their
\* loops on a failed call
C40_Witness ==
  /\ signals = 0
  /\ q.shutdown = 1
  /\ running = 0
  /\ \E i \in Producers : prod[i].pc = "done" /\ prod[i].result = -1
  /\ \E j \in Consumers : cons[j].pc = "done" /\ cons[j].result = -1

(* ---------------- C34 ---------------- *)
\* the sequence without its p-th element
RemoveAt(msgs, p) ==
  [k \in 1..(Len(msgs) - 1) |-> IF k < p THEN msgs[k] ELSE msgs[k + 1]]

\* the slots from front up to index, going round the end of the array
SlotsUpTo(qq, index) ==
  {(qq.front + d) % qq.capacity : d \in 0..((index - qq.front + qq.capacity) % qq.capacity)}

\* C34: the shape of the ring. Whenever q->mutex is free, rear = (front +
\* count) mod capacity and the messages in the slots front, front + 1, ...,
\* front + count - 1 (mod capacity) are exactly the messages stored and not
\* yet returned, in the order of their enqueue. A dequeue advances front by
\* one, leaves rear, writes only slots between front and the slot of the
\* message it removes, and leaves the other messages in their order, also
\* when the live region goes round the end of the array.
C34_RingShape ==
  /\ [](mutex = NoThread =>
          /\ q.rear = (q.front + q.count) % q.capacity
          /\ q.count >= 0 /\ q.count <= q.capacity
          /\ WindowUids(q) = stored \ returned
          /\ Cardinality(WindowUids(q)) = q.count
          /\ \A k \in 1..(q.count - 1) : Window(q)[k].seq < Window(q)[k + 1].seq)
  /\ [][SeqDequeueStep =>
          LET highest_index == find_highest_priority_index(q, now, aging)
              position == ((highest_index - q.front + q.capacity) % q.capacity) + 1
          IN /\ q'.front = (q.front + 1) % q.capacity
             /\ q'.rear = q.rear
             /\ q'.count = q.count - 1
             /\ seq'.out[Len(seq'.out)] = q.buffer[highest_index]
             /\ Window(q') = RemoveAt(Window(q), position)
             /\ \A slot \in 0..(q.capacity - 1) :
                  slot \notin SlotsUpTo(q, highest_index) =>
                    q'.buffer[slot] = q.buffer[slot]]_vars

\* a dequeue has just removed a message that was not at the front, from a
\* live region that goes round the end of the array, and two messages are left
C34_Witness ==
  /\ Len(seq.out) >= 1
  /\ q.count >= 2
  /\ q.front + q.count > q.capacity
  /\ seq.out[Len(seq.out)].seq > Window(q)[1].seq
  /\ seq.out[Len(seq.out)].seq < Window(q)[q.count].seq

(* ---------------- C38 ---------------- *)
\* C38: in every state of the analytics queue_full_count <= num_samples and
\* queue_empty_count <= num_samples, so that the fractions count /
\* num_samples of the report are at most 100 %.
C38_FractionsBounded ==
  /\ analytics.queue_full_count <= analytics.num_samples
  /\ analytics.queue_empty_count <= analytics.num_samples

\* while the array is not full the two counts stay within num_samples
C38_BelowBound ==
  analytics.num_samples < MAX_QUEUE_SAMPLES =>
    /\ analytics.queue_full_count <= analytics.num_samples
    /\ analytics.queue_empty_count <= analytics.num_samples

(* ---------------- analytics_print_recommendations (analytics.c) ---------------- *)
\* utilisation < 30.0, where utilisation = queue_occupancy_sum / num_samples
\* / queue_capacity * 100.0, and 0.0 without samples or capacity. The
\* doubles of the code decide as the exact fractions do for every count that
\* fits the sample array (compared value by value at and next to the limit).
utilisation_low(a) ==
  IF a.num_samples > 0 /\ a.queue_capacity > 0
  THEN 100 * a.queue_occupancy_sum < 30 * a.num_samples * a.queue_capacity
  ELSE TRUE

\* a recommendation that doubles the size without the limit MAX_QUEUE_SIZE
recommendation_uncapped(a) ==
  IF /\ a.num_samples > 0
     /\ a.total_producer_blocks > 0
     /\ 10 * a.queue_full_count > a.num_samples
  THEN [action |-> "INCREASE Queue Size", recommended_size |-> a.queue_capacity * 2]
  ELSE IF /\ a.num_samples > 0
          /\ a.total_consumer_blocks > 0
          /\ 10 * a.queue_empty_count > 3 * a.num_samples
  THEN [action |-> "ADD Producers (or Maintain Size)",
        recommended_size |-> a.queue_capacity]
  ELSE IF utilisation_low(a)
  THEN [action |-> "DECREASE Queue Size",
        recommended_size |-> IF (a.queue_capacity * 7) \div 10 < MIN_QUEUE_SIZE
                             THEN MIN_QUEUE_SIZE
                             ELSE (a.queue_capacity * 7) \div 10]
  ELSE [action |-> "MAINTAIN Current Size", recommended_size |-> a.queue_capacity]

\* the chain of if / else if of analytics_print_recommendations:
\* (double)queue_full_count / num_samples > 0.1, (double)queue_empty_count /
\* num_samples > 0.3, (int)(queue_capacity * 0.7)
recommendation(a) ==
  IF /\ a.num_samples > 0
     /\ a.total_producer_blocks > 0
     /\ 10 * a.queue_full_count > a.num_samples
  THEN [action |-> "INCREASE Queue Size",
        recommended_size |-> IF a.queue_capacity * 2 > MAX_QUEUE_SIZE
                             THEN MAX_QUEUE_SIZE ELSE a.queue_capacity * 2]
  ELSE IF /\ a.num_samples > 0
          /\ a.total_consumer_blocks > 0
          /\ 10 * a.queue_empty_count > 3 * a.num_samples
  THEN [action |-> "ADD Producers (or Maintain Size)",
        recommended_size |-> a.queue_capacity]
  ELSE IF utilisation_low(a)
  THEN [action |-> "DECREASE Queue Size",
        recommended_size |-> IF (a.queue_capacity * 7) \div 10 < MIN_QUEUE_SIZE
                             THEN MIN_QUEUE_SIZE
                             ELSE (a.queue_capacity * 7) \div 10]
  ELSE [action |-> "MAINTAIN Current Size", recommended_size |-> a.queue_capacity]

\* the capacities the report is computed for
ReportCapacities == {MIN_QUEUE_SIZE, 2, 3, 10, 11, MAX_QUEUE_SIZE}

\* The analytics of a finished run: no sample, or ReportSamples samples of
\* which full found the queue full, empty found it empty and the others
\* found it in between, with the sum of the occupancies that goes with them
\* (the stored samples themselves are not read by the report and are left out)
ReportAnalytics(capacity) ==
  {[analytics_init(capacity, TRUE) EXCEPT
      !.num_samples = num, !.queue_full_count = full, !.queue_empty_count = empty,
      !.queue_occupancy_sum = sum,
      !.total_producer_blocks = pb, !.total_consumer_blocks = cb] :
    <<num, full, empty, sum, pb, cb>> \in
      {x \in {0, ReportSamples} \X (0..ReportSamples) \X (0..ReportSamples)
               \X (0..(ReportSamples * capacity)) \X {0, 1} \X {0, 2} :
         /\ x[2] + x[3] <= x[1]
         /\ LET rest == x[1] - x[2] - x[3]
            IN IF capacity = 1 \/ rest = 0
               THEN rest = 0 /\ x[4] = x[2] * capacity
               ELSE /\ x[4] >= x[2] * capacity + rest
                    /\ x[4] <= x[2] * capacity + rest * (capacity - 1)}}

InitReport ==
  /\ \E capacity \in ReportCapacities :
       /\ InitQueue(capacity)
       /\ analytics \in ReportAnalytics(capacity)
  /\ sampler = SamplerInit
  /\ mono = 0
  /\ aging = AgingIntervalMs
  /\ prios = OnePriority
  /\ now = 0
  /\ running = 0
  /\ shutdown_in_progress = 1
  /\ queue_initialized = 1
  /\ prod = [i \in Producers |-> ProducerInit]
  /\ cons = [j \in Consumers |-> ConsumerInit]
  /\ sup = [SupInit EXCEPT !.pc = "summary"]
  /\ signals = 0
  /\ rng = 0
  /\ InitHistory
  /\ seq = [phase |-> "input", action |-> "", recommended_size |-> 0]

\* analytics_print_recommendations(&analytics)
ReportApply ==
  /\ seq.phase = "input"
  /\ seq' = [phase |-> "done", action |-> recommendation(analytics).action,
             recommended_size |-> recommendation(analytics).recommended_size]
  /\ UNCHANGED <<q, slots_available, items_available, mutex, now, flagvars,
                 prod, cons, sup, histvars, aging, prios, signals, rng, anvars>>

NextReport == ReportApply

SpecReport == InitReport /\ [][NextReport]_vars

(* ---------------- C31 ---------------- *)
\* the three tests of the claim, as fractions
FullOften(a) ==
  a.num_samples > 0 /\ 100 * a.queue_full_count > 10 * a.num_samples
  /\ a.total_producer_blocks > 0

EmptyOften(a) ==
  a.num_samples > 0 /\ 100 * a.queue_empty_count > 30 * a.num_samples
  /\ a.total_consumer_blocks > 0

LowUtilisation(a) ==
  IF a.num_samples = 0 THEN TRUE
  ELSE 100 * a.queue_occupancy_sum < 30 * a.num_samples * a.queue_capacity

\* floor(0.7 * capacity)
SeventyPercent(capacity) ==
  CHOOSE n \in 0..capacity : 10 * n <= 7 * capacity /\ 10 * (n + 1) > 7 * capacity

\* C31: the recommendation is the first match of: full in more than 10 % of
\* the samples and producer blocks > 0: increase, to min(2 * capacity, 20);
\* empty in more than 30 % of the samples and consumer blocks > 0: add
\* producers, size as it is; average utilisation below 30 % (0 without
\* samples): decrease, to max(floor(0.7 * capacity), 1); otherwise maintain,
\* size as it is. The suggested size lies in 1..20.
C31_Recommendation ==
  seq.phase = "done" =>
    LET a == analytics
        capacity == a.queue_capacity
    IN /\ seq.recommended_size \in MIN_QUEUE_SIZE..MAX_QUEUE_SIZE
       /\ IF FullOften(a)
          THEN /\ seq.action = "INCREASE Queue Size"
               /\ seq.recommended_size =
                    (IF 2 * capacity < MAX_QUEUE_SIZE THEN 2 * capacity ELSE MAX_QUEUE_SIZE)
          ELSE IF EmptyOften(a)
          THEN /\ seq.action = "ADD Producers (or Maintain Size)"
               /\ seq.recommended_size = capacity
          ELSE IF LowUtilisation(a)
          THEN /\ seq.action = "DECREASE Queue Size"
               /\ seq.recommended_size =
                    (IF SeventyPercent(capacity) > 1 THEN SeventyPercent(capacity) ELSE 1)
          ELSE /\ seq.action = "MAINTAIN Current Size"
               /\ seq.recommended_size = capacity

\* the first test wins over the second and the doubled size is cut at 20:
\* capacity 11, full in 2 of 10 samples, empty in 4 of 10, both kinds of block
C31_Witness ==
  /\ seq.phase = "done"
  /\ analytics.queue_capacity = 11
  /\ FullOften(analytics)
  /\ EmptyOften(analytics)
  /\ seq.action = "INCREASE Queue Size"
  /\ seq.recommended_size = MAX_QUEUE_SIZE

(* ---------------- the queue without locks (queue.h) ---------------- *)
\* The Queue of queue.h has a buffer, front, rear, count and capacity and no
\* mutex, semaphores or shutdown flag; its dequeue orders by priority and then
\* by timestamp, without aging.
plain_queue_init(capacity) ==
  [buffer |-> [s \in 0..(capacity - 1) |-> ZeroMessage],
   front |-> 0, rear |-> 0, count |-> 0, capacity |-> capacity]

\* The loop body for i, carrying <<highest_index, highest_priority, oldest_timestamp>>
RECURSIVE plain_scan_from(_, _, _)
plain_scan_from(qq, i, best) ==
  IF i >= qq.count THEN best[1]
  ELSE
    LET current_index == (qq.front + i) % qq.capacity
        priority == qq.buffer[current_index].priority
        ts == qq.buffer[current_index].timestamp
        nb == IF priority > best[2] THEN <<current_index, priority, ts>>
              ELSE IF priority = best[2] /\ ts < best[3] THEN <<current_index, best[2], ts>>
              ELSE best
    IN plain_scan_from(qq, i + 1, nb)

\* find_highest_priority_index of queue.h
plain_find_highest_priority_index(qq) ==
  IF qq.count = 0 THEN -1
  ELSE plain_scan_from(qq, 0, <<qq.front, qq.buffer[qq.front].priority,
                                qq.buffer[qq.front].timestamp>>)

\* queue_enqueue: -1 when full, else write at rear, advance rear, count++
queue_enqueue_result(qq) == IF qq.count >= qq.capacity THEN -1 ELSE 0

queue_enqueue(qq, msg) ==
  IF queue_enqueue_result(qq) # 0 THEN qq
  ELSE [qq EXCEPT !.buffer[qq.rear] = msg,
                  !.rear = (qq.rear + 1) % qq.capacity,
                  !.count = qq.count + 1]

\* queue_dequeue: -1 when empty or when the scan finds nothing
queue_dequeue_result(qq) ==
  IF qq.count = 0 THEN -1
  ELSE IF plain_find_highest_priority_index(qq) < 0 THEN -1
  ELSE 0

\* *msg = q->buffer[highest_index]; on -1 the caller's message is left as it was
queue_dequeue_msg(qq, old) ==
  IF queue_dequeue_result(qq) # 0 THEN old
  ELSE qq.buffer[plain_find_highest_priority_index(qq)]

\* the removal: front advances, after the shift that fills the gap when the
\* message was not at the front; count--
queue_dequeue(qq) ==
  IF queue_dequeue_result(qq) # 0 THEN qq
  ELSE
    LET highest_index == plain_find_highest_priority_index(qq)
    IN IF highest_index = qq.front
       THEN [qq EXCEPT !.front = (qq.front + 1) % qq.capacity,
                       !.count = qq.count - 1]
       ELSE [qq EXCEPT !.buffer = shift_loop(qq.buffer, highest_index, qq.front, qq.capacity),
                       !.front = (qq.front + 1) % qq.capacity,
                       !.count = qq.count - 1]

\* queue_peek: -1 when empty or when the scan finds nothing
queue_peek_result(qq) ==
  IF qq.count = 0 THEN -1
  ELSE IF plain_find_highest_priority_index(qq) < 0 THEN -1
  ELSE 0

\* a peek that reads the message at the front
queue_peek_msg_front(qq, old) ==
  IF queue_peek_result(qq) # 0 THEN old
  ELSE qq.buffer[qq.front]

\* *msg = q->buffer[highest_index]
queue_peek_msg(qq, old) ==
  IF queue_peek_result(qq) # 0 THEN old
  ELSE qq.buffer[plain_find_highest_priority_index(qq)]

\* One thread uses the queue of queue.h while the clock runs. seq.op is the
\* last call, seq.prev the one before, seq.result what the last call returned,
\* seq.msg the caller's Message.
InitPlain ==
  /\ \E capacity \in MIN_QUEUE_SIZE..SeqCapacity : q = plain_queue_init(capacity)
  /\ slots_available = SemUninit
  /\ items_available = SemUninit
  /\ mutex = UninitMutex
  /\ aging = 0
  /\ prios = SeqPriorities
  /\ now = 0
  /\ running = 1
  /\ shutdown_in_progress = 0
  /\ queue_initialized = 0
  /\ prod = [i \in Producers |-> ProducerInit]
  /\ cons = [j \in Consumers |-> ConsumerInit]
  /\ sup = SupInit
  /\ signals = 0
  /\ rng = 0
  /\ InitAnalyticsOff
  /\ InitHistory
  /\ seq = [op |-> "none", prev |-> "none", result |-> 0, msg |-> ZeroMessage]

\* queue_enqueue(&q, message_create(data, priority, id)), also on a full queue
PlainEnqueue ==
  /\ enq_count < SeqMaxEnq
  /\ \E data \in DataValues, priority \in prios :
       LET m == [message_create(data, priority, (enq_count % 3) + 1, enq_count + 1)
                   EXCEPT !.seq = enq_count + 1]
       IN /\ q' = queue_enqueue(q, m)
          /\ stored' = IF queue_enqueue_result(q) = 0 THEN stored \cup {m.uid} ELSE stored
          /\ seq' = [seq EXCEPT !.op = "enqueue", !.prev = seq.op,
                                !.result = queue_enqueue_result(q)]
  /\ enq_count' = enq_count + 1
  /\ UNCHANGED <<slots_available, items_available, mutex, now, flagvars, prod, cons,
                 sup, returned, dup_return, shutdown_calls, aging, prios, signals,
                 rng, anvars>>

\* queue_dequeue(&q, &msg), also on an empty queue
PlainDequeue ==
  /\ q' = queue_dequeue(q)
  /\ seq' = [op |-> "dequeue", prev |-> seq.op, result |-> queue_dequeue_result(q),
             msg |-> queue_dequeue_msg(q, seq.msg)]
  /\ returned' = IF queue_dequeue_result(q) = 0
                 THEN returned \cup {queue_dequeue_msg(q, seq.msg).uid} ELSE returned
  /\ UNCHANGED <<slots_available, items_available, mutex, now, flagvars, prod, cons,
                 sup, enq_count, stored, dup_return, shutdown_calls, aging, prios,
                 signals, rng, anvars>>

\* queue_peek(&q, &msg), also on an empty queue
PlainPeek ==
  /\ seq' = [op |-> "peek", prev |-> seq.op, result |-> queue_peek_result(q),
             msg |-> queue_peek_msg(q, seq.msg)]
  /\ UNCHANGED <<q, slots_available, items_available, mutex, now, flagvars, prod, cons,
                 sup, histvars, aging, prios, signals, rng, anvars>>

NextPlain == PlainEnqueue \/ PlainDequeue \/ PlainPeek \/ Tick

SpecPlain == InitPlain /\ [][NextPlain]_vars

(* ---------------- C33 ---------------- *)
\* C33: a peek leaves buffer, front, rear and count as they are; on an empty
\* queue peek and dequeue return -1 and change nothing; on a non-empty queue
\* peek returns 0, and the dequeue that follows it at once returns 0 and the
\* very message peek returned.
C33_PeekIsNextDequeue ==
  [][/\ PlainPeek =>
          /\ q' = q
          /\ seq'.result = (IF q.count = 0 THEN -1 ELSE 0)
          /\ q.count = 0 => seq'.msg = seq.msg
     /\ PlainDequeue =>
          /\ seq'.result = (IF q.count = 0 THEN -1 ELSE 0)
          /\ q.count = 0 => q' = q /\ seq'.msg = seq.msg
          /\ q.count > 0 => q'.count = q.count - 1
          /\ seq.op = "peek" =>
               /\ seq'.result = seq.result
               /\ seq'.msg = seq.msg]_vars

\* a dequeue right after a peek of a queue of three whose highest message is
\* not at the front: both returned the message of priority 9
C33_Witness ==
  /\ seq.op = "dequeue"
  /\ seq.prev = "peek"
  /\ seq.result = 0
  /\ seq.msg.priority = 9
  /\ q.count = 2
  /\ q.buffer[q.front].priority = 5
  /\ returned = {seq.msg.uid}
  /\ seq.msg.uid = 3

(* ---------------- test_queue_threaded (test_main.c) ---------------- *)
\* TestThreads producers and TestThreads consumers make TestOps calls each on
\* a queue that is never shut down. A worker's messages_produced or
\* messages_consumed is the i of its for loop. seq.created and seq.joined
\* count the threads main has created and joined (producer 1, consumer 1,
\* producer 2, consumer 2), seq.final_count is the count main prints.
TestProducers == 1..TestThreads
TestConsumers == 1..TestThreads

InitTest ==
  /\ \E capacity \in MIN_QUEUE_SIZE..TestCapacity : InitQueue(capacity)
  /\ aging = AgingIntervalMs
  /\ prios = OnePriority
  /\ now = 0
  /\ running = 1
  /\ shutdown_in_progress = 0
  /\ queue_initialized = 1
  /\ prod = [i \in TestProducers |-> ProducerInit]
  /\ cons = [j \in TestConsumers |-> ConsumerInit]
  /\ sup = SupInit
  /\ signals = 0
  /\ rng = 0
  /\ InitAnalyticsOff
  /\ InitHistory
  /\ seq = [phase |-> "spawn", created |-> 0, joined |-> 0, final_count |-> -1]

\* for (i = 0; i < 3 && test_running; i++) { msg = message_create(...);
\* result = queue_enqueue_safe(&test_queue, msg); if (result != 0) break; }
TestProducerLoop(i) ==
  /\ prod[i].pc = "p_loop"
  /\ IF prod[i].messages_produced < TestOps /\ running # 0
     THEN \E data \in DataValues, priority \in prios :
            prod' = [prod EXCEPT
              ![i].pc = "enq_entry",
              ![i].msg = message_create(data, priority, i,
                           (i - 1) * TestOps + prod[i].messages_produced + 1),
              ![i].was_blocked = 0]
     ELSE prod' = [prod EXCEPT ![i].pc = "done"]
  /\ UNCHANGED <<q, slots_available, items_available, mutex, now, flagvars,
                 cons, sup, histvars, envvars, anvars>>

\* for (i = 0; i < 3 && test_running; i++) {
\* result = queue_dequeue_safe(&test_queue, &msg); if (result != 0) break; }
TestConsumerLoop(j) ==
  /\ cons[j].pc = "c_loop"
  /\ IF cons[j].messages_consumed < TestOps /\ running # 0
     THEN cons' = [cons EXCEPT ![j].pc = "deq_entry", ![j].was_blocked = 0]
     ELSE cons' = [cons EXCEPT ![j].pc = "done"]
  /\ UNCHANGED <<q, slots_available, items_available, mutex, now, flagvars,
                 prod, sup, histvars, envvars, anvars>>

\* no signal is delivered in the test, so no sem_wait returns EINTR
TestProducerStep(i) ==
  \/ TestProducerLoop(i) \/ EnqEntry(i) \/ EnqTry(i) \/ EnqWait(i)
  \/ EnqRecheck(i) \/ EnqLock(i) \/ EnqUnlock(i) \/ EnqPost(i)

TestConsumerStep(j) ==
  \/ TestConsumerLoop(j) \/ DeqEntry(j) \/ DeqTry(j) \/ DeqWait(j)
  \/ DeqRecheck(j) \/ DeqLock(j) \/ DeqUnlock(j) \/ DeqPost(j)

\* pthread_create(&producers[i], ...); pthread_create(&consumers[i], ...);
TestSpawn ==
  /\ seq.phase = "spawn"
  /\ LET k == (seq.created \div 2) + 1
     IN IF seq.created % 2 = 0
        THEN /\ prod' = [prod EXCEPT ![k].pc = "p_loop"]
             /\ cons' = cons
        ELSE /\ cons' = [cons EXCEPT ![k].pc = "c_loop"]
             /\ prod' = prod
  /\ seq' = [seq EXCEPT !.created = seq.created + 1,
                        !.phase = IF seq.created + 1 = 2 * TestThreads
                                  THEN "join" ELSE "spawn"]
  /\ UNCHANGED <<q, slots_available, items_available, mutex, now, flagvars,
                 sup, histvars, aging, prios, signals, rng, anvars>>

\* pthread_join(producers[i], NULL); pthread_join(consumers[i], NULL);
\* after the last join: printf("Final Queue Count", queue_get_count(...))
TestJoin ==
  /\ seq.phase = "join"
  /\ LET k == (seq.joined \div 2) + 1
     IN IF seq.joined % 2 = 0 THEN prod[k].pc = "done" ELSE cons[k].pc = "done"
  /\ seq' = IF seq.joined + 1 = 2 * TestThreads
            THEN [seq EXCEPT !.joined = seq.joined + 1, !.phase = "joined",
                             !.final_count = q.count]
            ELSE [seq EXCEPT !.joined = seq.joined + 1]
  /\ UNCHANGED <<q, slots_available, items_available, mutex, now, flagvars,
                 prod, cons, sup, histvars, aging, prios, signals, rng, anvars>>

\* queue_destroy(&test_queue)
TestDestroy ==
  /\ seq.phase = "joined"
  /\ seq' = [seq EXCEPT !.phase = "destroyed"]
  /\ mutex' = DestroyedMutex
  /\ queue_initialized' = 0
  /\ UNCHANGED <<q, slots_available, items_available, now, running,
                 shutdown_in_progress, prod, cons, sup, histvars, aging, prios,
                 signals, rng, anvars>>

TestMainStep == TestSpawn \/ TestJoin \/ TestDestroy

NextTest ==
  \/ \E i \in TestProducers : TestProducerStep(i)
  \/ \E j \in TestConsumers : TestConsumerStep(j)
  \/ TestMainStep

SpecTest == InitTest /\ [][NextTest]_vars

\* every thread is scheduled again and again
FairSpecTest ==
  /\ SpecTest
  /\ WF_vars(TestMainStep)
  /\ \A i \in TestProducers : WF_vars(TestProducerStep(i))
  /\ \A j \in TestConsumers : WF_vars(TestConsumerStep(j))

(* ---------------- C32 ---------------- *)
\* every thread has left its loop
TestWorkersDone ==
  /\ \A i \in TestProducers : prod[i].pc = "done"
  /\ \A j \in TestConsumers : cons[j].pc = "done"

\* every thread made all its calls, and each of them succeeded
TestAllOpsMade ==
  /\ \A i \in TestProducers : prod[i].messages_produced = TestOps /\ prod[i].result = 0
  /\ \A j \in TestConsumers : cons[j].messages_consumed = TestOps /\ cons[j].result = 0

\* C32: with as many enqueues as dequeues and no shutdown, under fair
\* scheduling every thread finishes, having made all its calls, main joins
\* them all, and the queue is then empty.
C32_BalancedTerminates ==
  /\ <>(TestWorkersDone /\ seq.phase = "destroyed")
  /\ [](TestWorkersDone => TestAllOpsMade /\ q.count = 0 /\ q.shutdown = 0)
  /\ [](seq.phase \in {"joined", "destroyed"} => seq.final_count = 0)

\* the run has ended on a queue of capacity 1, where each producer had to wait
C32_Witness ==
  /\ seq.phase = "destroyed"
  /\ q.capacity = 1
  /\ TestWorkersDone
  /\ TestAllOpsMade
  /\ \A i \in TestProducers : prod[i].times_blocked > 0
  /\ returned = 1..(TestThreads * TestOps)

(* ---------------- C39 ---------------- *)
\* the thread was created and has not left its loop
ProducerLive(i) == prod[i].pc \notin {"idle", "done"}
ConsumerLive(j) == cons[j].pc \notin {"idle", "done"}

\* parked in sem_wait on a semaphore that is 0, or in pthread_mutex_lock on a
\* mutex that is held
ProducerBlocked(i) ==
  \/ prod[i].pc = "enq_wait" /\ slots_available = 0
  \/ prod[i].pc = "enq_lock" /\ mutex # NoThread

ConsumerBlocked(j) ==
  \/ cons[j].pc = "deq_wait" /\ items_available = 0
  \/ cons[j].pc = "deq_lock" /\ mutex # NoThread

\* C39: while no shutdown is requested and a producer and a consumer are
\* still at work, not every worker at work is parked on a semaphore or
\* waiting for the mutex: one of them can take a step.
C39_NoDeadlockWhileLive ==
  (/\ q.shutdown = 0
   /\ running = 1
   /\ \E i \in TestProducers : ProducerLive(i)
   /\ \E j \in TestConsumers : ConsumerLive(j))
  => \/ \E i \in TestProducers :
          ProducerLive(i) /\ ~ProducerBlocked(i) /\ ENABLED TestProducerStep(i)
     \/ \E j \in TestConsumers :
          ConsumerLive(j) /\ ~ConsumerBlocked(j) /\ ENABLED TestConsumerStep(j)

\* all four workers are at work and three of them are parked: both consumers
\* on items_available, one producer on slots_available; the other producer
\* is the only thread that can go on
C39_Witness ==
  /\ q.shutdown = 0
  /\ \A j \in TestConsumers : cons[j].pc = "deq_wait" /\ ConsumerBlocked(j)
  /\ \E i \in TestProducers : prod[i].pc = "enq_wait" /\ ProducerBlocked(i)
  /\ \E i \in TestProducers : ProducerLive(i) /\ ~ProducerBlocked(i)
  /\ seq.phase = "join"
====
